---- MODULE Spec2Model ----
(***************************************************************************)
(* Model of the tenv version manager (src/pkg/github/github.go): the       *)
(* VersionManager facade (Detect, Evaluate, Install, Use, Uninstall,       *)
(* ListLocal), its double-checked installer and the install lock, run by   *)
(* several processes that share one install directory.                     *)
(*                                                                         *)
(* A string is a sequence of one-character strings ("1.2.0" is             *)
(* <<"1", ".", "2", ".", "0">>); a keyword or an operator of a constraint  *)
(* is one element (<<"latest">>, <<">=", "1", ".", "1">>).                 *)
(***************************************************************************)
EXTENDS Integers, Sequences, FiniteSets, TLC

\* Highest minor number of the versions that exist: the versions of the
\* model are 1.0.0 .. 1.<MaxMinor>.0.
MaxMinor == 1

\* Longest list of versions given to UninstallMultiple.
MaxBatch == 2

\* Most pages of releases or of assets the server holds.
MaxPages == 2

\* Most objects in one page.
MaxPerPage == 2

Procs == {"p1", "p2"}
NoProc == "none"
NoStr == <<>>

----------------------------------------------------------------------------
\* Strings and versions

DigitChars == <<"0", "1", "2", "3", "4", "5", "6", "7", "8", "9">>
IsDigit(c) == \E i \in 1..10 : DigitChars[i] = c
DigitVal(c) == (CHOOSE i \in 1..10 : DigitChars[i] = c) - 1

\* The text of a version without its optional leading "v".
StripV(s) == IF Len(s) > 0 /\ s[1] = "v" THEN Tail(s) ELSE s

\* version.NewVersion: an optional "v", then one to three numeric segments
\* separated by dots (segments of one digit here); anything else is an error.
\* The parsed version has three segments, the missing ones being 0.
ParsesAsVersion(s) ==
    LET b == StripV(s)
    IN  /\ Len(b) \in {1, 3, 5}
        /\ \A i \in 1..Len(b) : IF i % 2 = 1 THEN IsDigit(b[i]) ELSE b[i] = "."

Segments(s) ==
    LET b == StripV(s)
    IN  [i \in 1..3 |-> IF 2 * i - 1 <= Len(b) THEN DigitVal(b[2 * i - 1]) ELSE 0]

\* parsedVersion.String(): the three segments joined by dots, no "v".
VersionStringBare(seg) ==
    <<DigitChars[seg[1] + 1], ".", DigitChars[seg[2] + 1], ".", DigitChars[seg[3] + 1]>>

VersionStringKeepV(seg) == <<"v">> \o VersionStringBare(seg)

VersionString(seg) == VersionStringBare(seg)

NewVersion(s) ==
    IF ParsesAsVersion(s)
    THEN [ok |-> TRUE, text |-> VersionString(Segments(s))]
    ELSE [ok |-> FALSE, text |-> NoStr]

\* semantic.CmpVersion: -1, 0 or 1, by the segments from left to right.
CmpVersion(a, b) ==
    LET x == Segments(a)
        y == Segments(b)
    IN  IF x[1] # y[1] THEN (IF x[1] < y[1] THEN -1 ELSE 1)
        ELSE IF x[2] # y[2] THEN (IF x[2] < y[2] THEN -1 ELSE 1)
        ELSE IF x[3] # y[3] THEN (IF x[3] < y[3] THEN -1 ELSE 1)
        ELSE 0

\* reversecmp.Reverser: the comparison, with its arguments swapped when
\* reverseOrder is set.
ReverserSwapped(a, b, reverseOrder) == IF reverseOrder THEN CmpVersion(a, b) ELSE CmpVersion(b, a)

Reverser(a, b, reverseOrder) == IF reverseOrder THEN CmpVersion(b, a) ELSE CmpVersion(a, b)

\* slices.SortFunc(versions, cmpFunc): insertion of each element at its place.
RECURSIVE InsertSorted(_, _, _)
InsertSorted(v, sorted, reverseOrder) ==
    IF sorted = <<>> THEN <<v>>
    ELSE IF Reverser(v, Head(sorted), reverseOrder) <= 0 THEN <<v>> \o sorted
    ELSE <<Head(sorted)>> \o InsertSorted(v, Tail(sorted), reverseOrder)

RECURSIVE SortVersions(_, _)
SortVersions(versions, reverseOrder) ==
    IF versions = <<>> THEN <<>>
    ELSE InsertSorted(Head(versions), SortVersions(Tail(versions), reverseOrder), reverseOrder)

\* The sequences without repetition over a set, in every order.
RECURSIVE Perms(_)
Perms(S) ==
    IF S = {} THEN {<<>>}
    ELSE UNION {{<<x>> \o t : t \in Perms(S \ {x})} : x \in S}

\* The canonical versions of the model.
Versions == {VersionStringBare(<<1, m, 0>>) : m \in 0..MaxMinor}

\* The names a version directory can have: the canonical versions.
DirNames == Versions

\* What a caller can ask for as a concrete version: the canonical text, the
\* same with a leading "v", and the short text "1.m".
ConcreteRequests ==
    Versions \cup {<<"v">> \o v : v \in Versions} \cup {SubSeq(v, 1, 3) : v \in Versions}

\* The constraint of the IaC files, read by the strategy min-required.
IacConstraint == <<">=", "1", ".", "0">>

\* Strategy keywords and constraints, and one text that is neither.
PredicateRequests ==
    {<<"latest">>, <<"latest-allowed">>, <<"min-required">>, <<"<", "1", ".", "1">>,
     <<"bogus">>}

Requests == ConcreteRequests \cup PredicateRequests

\* A constraint "<op> <version>" applied to a version.
ConstraintHolds(c, v) ==
    IF c[1] = ">=" THEN CmpVersion(v, Tail(c)) >= 0
    ELSE IF c[1] = "<" THEN CmpVersion(v, Tail(c)) < 0
    ELSE FALSE

\* semantic.ParsePredicate: the predicate and the order of the scan
\* (reverse: newest first), or an error.
ParsePredicate(req) ==
    IF req = <<"latest">> THEN [ok |-> TRUE, constraint |-> <<>>, reverse |-> TRUE]
    ELSE IF req = <<"latest-allowed">> THEN [ok |-> TRUE, constraint |-> IacConstraint, reverse |-> TRUE]
    ELSE IF req = <<"min-required">> THEN [ok |-> TRUE, constraint |-> IacConstraint, reverse |-> FALSE]
    ELSE IF Len(req) > 1 /\ req[1] \in {">=", "<"} /\ ParsesAsVersion(Tail(req))
         THEN [ok |-> TRUE, constraint |-> req, reverse |-> TRUE]
    ELSE [ok |-> FALSE, constraint |-> <<>>, reverse |-> FALSE]

\* predicateInfo.Predicate(version)
Predicate(info, v) == info.constraint = <<>> \/ ConstraintHolds(info.constraint, v)

\* The loop "for _, version := range versions { if Predicate(version) ..." :
\* the index of the first version that satisfies the predicate, 0 if none.
LastMatch(info, versions) ==
    IF \E i \in 1..Len(versions) : Predicate(info, versions[i])
    THEN CHOOSE i \in 1..Len(versions) :
            /\ Predicate(info, versions[i])
            /\ \A j \in (i + 1)..Len(versions) : ~Predicate(info, versions[j])
    ELSE 0

FirstMatch(info, versions) ==
    IF \E i \in 1..Len(versions) : Predicate(info, versions[i])
    THEN CHOOSE i \in 1..Len(versions) :
            /\ Predicate(info, versions[i])
            /\ \A j \in 1..(i - 1) : ~Predicate(info, versions[j])
    ELSE 0

\* What retriever.ListReleases can return: the canonical versions of any part
\* of the catalog, in any order.
RemoteLists == UNION {Perms(S) : S \in SUBSET Versions}

----------------------------------------------------------------------------
\* The release catalog client (lines 37-230): JSON values and the extractors

\* object["name"].(string): the field is there and is a string.
HasField(object, name) == name \in DOMAIN object

\* The tag names the server can hold: none (an empty or missing tag_name, or
\* one that is not a string), a bare "v", a version, a version after one "v"
\* and after two.
BaseTag == <<"1", ".", "0", ".", "0">>
Tags == {NoStr, <<"v">>, BaseTag, <<"v">> \o BaseTag, <<"v", "v">> \o BaseTag}

ReleaseObjects == {[tag_name |-> t] : t \in Tags}

\* The assets of a release: three names with their URL, one asset without
\* its name, one without its URL.
AssetObjects ==
    {[name |-> n, browser_download_url |-> "url-" \o n] : n \in {"a", "b", "c"}}
        \cup {[browser_download_url |-> "url-x"], [name |-> "a"]}

\* The sequences over S of length n at most.
RECURSIVE SeqsUpTo(_, _)
SeqsUpTo(S, n) ==
    IF n = 0 THEN {<<>>}
    ELSE SeqsUpTo(S, n - 1) \cup {<<x>> \o t : x \in S, t \in {u \in SeqsUpTo(S, n - 1) : Len(u) = n - 1}}

\* What apiGetRequest (lines 123-150) returns for a page: an error (the
\* transport, or a body that is not JSON), a value that is not an array, or an
\* array of objects.
PageValues(objects) ==
    {[err |-> TRUE, isArray |-> FALSE, values |-> <<>>],
     [err |-> FALSE, isArray |-> FALSE, values |-> <<>>]}
        \cup {[err |-> FALSE, isArray |-> TRUE, values |-> vs] : vs \in SeqsUpTo(objects, MaxPerPage)}

EmptyPage == [err |-> FALSE, isArray |-> TRUE, values |-> <<>>]

\* The server: its pages 1..Len(pages), and after them either empty pages or
\* its last page again and again.
apiGetRequest(pages, tail, page) ==
    IF page <= Len(pages) THEN pages[page]
    ELSE IF tail = "empty" \/ pages = <<>> THEN EmptyPage
    ELSE pages[Len(pages)]

\* extractVersion keeping the tag as it is.
extractVersionAsIs(value) ==
    LET version == IF HasField(value, "tag_name") THEN value.tag_name ELSE NoStr
    IN  [version |-> version, ok |-> version # NoStr]

\* extractVersion (lines 218-230)
extractVersion(value) ==
    LET version == IF HasField(value, "tag_name") THEN value.tag_name ELSE NoStr
    IN  IF version = NoStr THEN [version |-> NoStr, ok |-> FALSE]
        ELSE IF version[1] = "v" THEN [version |-> Tail(version), ok |-> TRUE]
        ELSE [version |-> version, ok |-> TRUE]

\* extractReleases forgetting the releases of the pages before.
extractReleasesLastPage(releases, value) ==
    IF ~value.isArray THEN [releases |-> <<>>, err |-> "ErrReturn"]
    ELSE IF value.values = <<>> THEN [releases |-> releases, err |-> "none"]
    ELSE IF \E i \in 1..Len(value.values) : ~extractVersion(value.values[i]).ok
    THEN [releases |-> <<>>, err |-> "ErrReturn"]
    ELSE [releases |-> [i \in 1..Len(value.values) |-> extractVersion(value.values[i]).version],
          err |-> "continue"]

\* extractReleases (lines 198-216)
extractReleases(releases, value) ==
    IF ~value.isArray THEN [releases |-> <<>>, err |-> "ErrReturn"]
    ELSE IF value.values = <<>> THEN [releases |-> releases, err |-> "none"]
    ELSE IF \E i \in 1..Len(value.values) : ~extractVersion(value.values[i]).ok
    THEN [releases |-> <<>>, err |-> "ErrReturn"]
    ELSE [releases |-> releases \o [i \in 1..Len(value.values) |-> extractVersion(value.values[i]).version],
          err |-> "continue"]

\* The map of the assets found: no entry, and one entry added or replaced.
NoAssets == [n \in {} |-> ""]
PutAsset(assets, name, url) ==
    [n \in DOMAIN assets \cup {name} |-> IF n = name THEN url ELSE assets[n]]

\* The loop of extractAssets (lines 174-195) from the i-th object on.
RECURSIVE extractAssetsFrom(_, _, _, _, _)
extractAssetsFrom(assets, searchedAssetNameSet, waited, values, i) ==
    IF i > Len(values) THEN [assets |-> assets, err |-> "continue"]
    ELSE IF ~HasField(values[i], "name") THEN [assets |-> assets, err |-> "ErrReturn"]
    ELSE IF values[i].name \notin searchedAssetNameSet
    THEN extractAssetsFrom(assets, searchedAssetNameSet, waited, values, i + 1)
    ELSE IF ~HasField(values[i], "browser_download_url") THEN [assets |-> assets, err |-> "ErrReturn"]
    ELSE LET found == PutAsset(assets, values[i].name, values[i].browser_download_url)
         IN  IF Cardinality(DOMAIN found) = waited THEN [assets |-> found, err |-> "none"]
             ELSE extractAssetsFrom(found, searchedAssetNameSet, waited, values, i + 1)

\* extractAssets (lines 164-196)
extractAssets(assets, searchedAssetNameSet, waited, value) ==
    IF ~value.isArray THEN [assets |-> assets, err |-> "ErrReturn"]
    ELSE IF value.values = <<>> THEN [assets |-> assets, err |-> "ErrAsset"]
    ELSE extractAssetsFrom(assets, searchedAssetNameSet, waited, value.values, 1)

\* waited (line 55) as the number of different names searched.
WaitedDistinct(searchedAssetNames) == Cardinality({searchedAssetNames[i] : i \in 1..Len(searchedAssetNames)})

\* waited := len(searchedAssetNames) (line 55)
Waited(searchedAssetNames) == Len(searchedAssetNames)

----------------------------------------------------------------------------
\* State

VARIABLES
    dirs,    \* the install directory: version name -> "absent" | "partial" | "full"
    lock,    \* the process whose lock file is in the install directory, or NoProc
    files,   \* the version files: "root" (<root>/<folder>/version), "wd" (VersionFiles[0])
    pc,      \* each process's place in the operation it runs
    op,      \* each process's operation: its name, arguments and configuration; again:
             \* "first" in the first of two Install calls of the same version in a
             \* row, "ok" or "failed" in the second one, after the first succeeded or
             \* failed, "no" in any other call and once a removal of the version has
             \* been under way; then: "list" in an Uninstall of a version that a
             \* ListLocal follows, and in this ListLocal, as long as no install has
             \* populated the version since its removal ended; batch: the versions
             \* given to UninstallMultiple
    ver,     \* each process's concrete version at hand (cleanedVersion, version)
    ret,     \* each process's returned (version, error), and the list ListLocal returns
    todo,    \* each process: the versions Uninstall has still to remove
    env,     \* each process, while it resolves: its environment variables and what
             \* the parsers of the version files answer
    armed,   \* each process: is the clean-and-exit interrupt handler installed
    obs,     \* each process: what the operation under way has done so far
    gone,    \* each process: a removal of ver was under way (or left unfinished) when
             \* this process found the directory, or has started since
    made,    \* the install directory <root>/<folder> itself exists
    api      \* the release catalog client: the catalog the server holds and the
             \* call under way (ListReleases, LatestRelease, DownloadAssetURL)

vars == <<dirs, lock, files, pc, op, ver, ret, todo, env, armed, obs, gone, made, api>>

NoOp ==
    [name |-> "none", req |-> NoStr, noInstall |-> FALSE, forceRemote |-> FALSE,
     proxyCall |-> FALSE, workingDir |-> FALSE, reverse |-> FALSE, stdin |-> "EOF",
     again |-> "no", then |-> "no", batch |-> <<>>]

NoRet == [version |-> NoStr, err |-> "none", listing |-> <<>>]

\* calls: retriever.InstallRelease calls; lists: retriever.ListReleases calls;
\* locals: listings of the install directory; locks: lock acquisitions;
\* shown: the messages displayed; flushed: Flush(proxyCall) was called;
\* srcs: the sources Resolve consulted, in order; wrote: a version file written;
\* remote: what retriever.ListReleases returned.
NoObs ==
    [calls |-> 0, lists |-> 0, locals |-> 0, locks |-> 0, shown |-> {},
     flushed |-> FALSE, srcs |-> <<>>, wrote |-> FALSE, remote |-> <<>>]

\* version, default: the two environment variables; iac: the answer of the
\* parser of VersionFiles[1]; wdErr, rootErr: the flat parser fails on
\* VersionFiles[0], on <root>/<folder>/version.
NoEnv ==
    [version |-> NoStr, default |-> NoStr, iac |-> [text |-> NoStr, err |-> FALSE],
     wdErr |-> FALSE, rootErr |-> FALSE]

\* The catalog client at rest: the pages the server holds (of releases, of
\* assets), what it serves after them, and of the call under way or ended:
\* the function, its state ("idle", "running", "ok", "error") and error, the
\* page to request next, the pages requested so far, the releases and the
\* assets gathered, the version returned, and the arguments (tag_name served
\* to LatestRelease, names searched).
NoApi ==
    [releasePages |-> <<>>, assetPages |-> <<>>, tail |-> "empty",
     fn |-> "none", state |-> "idle", err |-> "none", page |-> 1, asked |-> <<>>,
     releases |-> <<>>, assets |-> NoAssets, version |-> NoStr, tag |-> NoStr,
     searched |-> <<>>]

Display(o, msg) == [o EXCEPT !.shown = @ \cup {msg}]
Flush(o, how, proxyCall) == [o EXCEPT !.flushed = @ \/ (how = proxyCall)]

Init ==
    /\ dirs \in [DirNames -> {"absent", "full"}]
    /\ lock = NoProc
    /\ files = [f \in {"root", "wd"} |-> NoStr]
    /\ pc = [p \in Procs |-> "idle"]
    /\ op = [p \in Procs |-> NoOp]
    /\ ver = [p \in Procs |-> NoStr]
    /\ ret = [p \in Procs |-> NoRet]
    /\ todo = [p \in Procs |-> <<>>]
    /\ env = [p \in Procs |-> NoEnv]
    /\ armed = [p \in Procs |-> FALSE]
    /\ obs = [p \in Procs |-> NoObs]
    /\ gone = [p \in Procs |-> FALSE]
    /\ made \in {b \in BOOLEAN : (\E v \in DirNames : dirs[v] # "absent") => b}
    /\ api = NoApi

----------------------------------------------------------------------------
\* Helpers of the actions

Go(p, place) == pc' = [pc EXCEPT ![p] = place]
SetObs(p, o) == obs' = [obs EXCEPT ![p] = o]
SetRet(p, v, e) == ret' = [ret EXCEPT ![p] = [version |-> v, err |-> e, listing |-> <<>>]]

\* Where a process goes when Evaluate or Install has its result: Use goes on
\* to write the version file, the others return.
AfterCore(o) == IF o.name = "Use" THEN "use_write" ELSE "done"

\* The version Evaluate returns beside the error; Install returns the error alone.
CoreVersion(o, v) == IF o.name = "Install" THEN NoStr ELSE v

\* InstallPath (lines 396-400): os.MkdirAll makes the install directory when
\* it is missing, unless it fails.
InstallPath(exists, ok) == exists \/ ok

\* A check that never finds the entry, and one that always finds it.
StatFindsNothing(d, v) == FALSE

StatFindsAlways(d, v) == TRUE

\* os.Stat(filepath.Join(installPath, version)) finds a directory entry.
StatFinds(d, v) == v \in DOMAIN d /\ d[v] # "absent"

\* retriever.InstallRelease (its contract): a populated directory on success,
\* the file system untouched on failure.
InstallRelease(d, v, success) == IF success THEN [d EXCEPT ![v] = "full"] ELSE d

\* The retriever cut by the exit of the process (interrupt handler): by its
\* contract no half-populated directory is left.
InstallReleaseCut(d, v) == d

\* deleteLock(): the lock file is removed. Called by a process that does not
\* hold the lock (the interrupt handler, after the deferred deleteLock has
\* run and before disableExit), it either finds nothing of its own to remove
\* or removes the file another process has written since.
DeleteLock(l, p) == IF l = p \/ l = NoProc THEN {NoProc} ELSE {l, NoProc}

\* Every removal that starts on a version is seen by the processes that have
\* this version at hand, and a second Install of it is no longer one that
\* follows the first with no removal in between.
\* An install that populates a version after its removal has ended is seen
\* by the process that removed it and lists the directory next.
ThenAfterInstall(v, success) ==
    [q \in Procs |->
        IF /\ success
           /\ op[q].then = "list"
           /\ NewVersion(op[q].req).text = v
           /\ pc[q] \in {"unlock", "disarm", "done", "ll_list"}
        THEN [op[q] EXCEPT !.then = "no"]
        ELSE op[q]]

GoneAfterRemoval(p, v) == [q \in Procs |-> gone[q] \/ (q # p /\ ver[q] = v /\ pc[q] # "idle")]
AgainAfterRemoval(v) == [q \in Procs |-> [op[q] EXCEPT !.again = IF ver[q] = v THEN "no" ELSE @]]

----------------------------------------------------------------------------
\* installSpecificVersion (lines 668-714)

\* Lines 669-685: the empty version, then the first check, without the lock.
IsvFirstCheck(p) ==
    /\ pc[p] = "isv_check1"
    /\ \E pathok \in BOOLEAN, statok \in BOOLEAN :
        IF ver[p] = NoStr
        THEN /\ SetObs(p, Flush(obs[p], op[p].proxyCall, op[p].proxyCall))
             /\ SetRet(p, CoreVersion(op[p], ver[p]), "empty")
             /\ Go(p, AfterCore(op[p]))
             /\ UNCHANGED <<gone, made>>
        ELSE IF ~pathok \/ ~statok
        THEN /\ SetRet(p, CoreVersion(op[p], ver[p]), "fs")
             /\ Go(p, AfterCore(op[p]))
             /\ made' = InstallPath(made, pathok)
             /\ UNCHANGED <<obs, gone>>
        ELSE IF StatFinds(dirs, ver[p])
        THEN /\ SetObs(p, Flush(Display(obs[p], "already"), op[p].proxyCall, op[p].proxyCall))
             /\ SetRet(p, CoreVersion(op[p], ver[p]), "none")
             /\ Go(p, AfterCore(op[p]))
             /\ gone' = [gone EXCEPT ![p] = dirs[ver[p]] = "partial"]
             /\ made' = InstallPath(made, pathok)
        ELSE /\ Go(p, "isv_lock")
             /\ made' = InstallPath(made, pathok)
             /\ UNCHANGED <<obs, ret, gone>>
    /\ UNCHANGED <<dirs, lock, files, op, ver, todo, env, armed, api>>

\* An installer that goes on without the lock.
IsvNoLock(p) ==
    /\ pc[p] = "isv_lock"
    /\ Go(p, "isv_arm")
    /\ UNCHANGED <<dirs, lock, files, op, ver, ret, todo, env, armed, obs, gone, made, api>>

\* Line 687: lockfile.Write returns once this process has written the lock file.
IsvLock(p) ==
    /\ pc[p] = "isv_lock"
    /\ lock = NoProc
    /\ lock' = p
    /\ SetObs(p, [obs[p] EXCEPT !.locks = @ + 1])
    /\ Go(p, "isv_arm")
    /\ UNCHANGED <<dirs, files, op, ver, ret, todo, env, armed, gone, made, api>>

\* Line 688: lockfile.CleanAndExitOnInterrupt installs the handler.
IsvArm(p) ==
    /\ pc[p] = "isv_arm"
    /\ armed' = [armed EXCEPT ![p] = TRUE]
    /\ Go(p, "isv_check2")
    /\ UNCHANGED <<dirs, lock, files, op, ver, ret, todo, env, obs, gone, made, api>>

\* Lines 692-708: the second check, with the lock, then the call of the retriever.
IsvSecondCheck(p) ==
    /\ pc[p] = "isv_check2"
    /\ \E fsok \in BOOLEAN :
        IF ~fsok
        THEN /\ SetRet(p, CoreVersion(op[p], ver[p]), "fs")
             /\ Go(p, "unlock")
             /\ UNCHANGED <<obs, gone>>
        ELSE IF StatFinds(dirs, ver[p])
        THEN /\ SetObs(p, Flush(Display(obs[p], "already"), op[p].proxyCall, op[p].proxyCall))
             /\ SetRet(p, CoreVersion(op[p], ver[p]), "none")
             /\ Go(p, "unlock")
             /\ gone' = [gone EXCEPT ![p] = dirs[ver[p]] = "partial"]
        ELSE /\ SetObs(p, [Display(Flush(obs[p], FALSE, op[p].proxyCall), "installing")
                            EXCEPT !.calls = @ + 1])
             /\ Go(p, "isv_retrieve")
             /\ UNCHANGED <<ret, gone>>
    /\ UNCHANGED <<dirs, lock, files, op, ver, todo, env, armed, made, api>>

\* Lines 708-713: the retriever returns.
IsvRetrieve(p) ==
    /\ pc[p] = "isv_retrieve"
    /\ \E success \in BOOLEAN :
        /\ dirs' = InstallRelease(dirs, ver[p], success)
        /\ IF success
           THEN /\ SetObs(p, Display(obs[p], "installed"))
                /\ SetRet(p, CoreVersion(op[p], ver[p]), "none")
                /\ gone' = [gone EXCEPT ![p] = FALSE]
           ELSE /\ SetRet(p, CoreVersion(op[p], ver[p]), "retriever")
                /\ UNCHANGED <<obs, gone>>
        /\ op' = ThenAfterInstall(ver[p], success)
    /\ Go(p, "unlock")
    /\ UNCHANGED <<lock, files, ver, todo, env, armed, made, api>>

\* The deferred deleteLock() (lines 690, 536, 589): runs first.
Unlock(p) ==
    /\ pc[p] = "unlock"
    /\ lock' \in DeleteLock(lock, p)
    /\ Go(p, "disarm")
    /\ UNCHANGED <<dirs, files, op, ver, ret, todo, env, armed, obs, gone, made, api>>

\* The deferred disableExit() (lines 689, 535, 588): runs last; the function returns.
Disarm(p) ==
    /\ pc[p] = "disarm"
    /\ armed' = [armed EXCEPT ![p] = FALSE]
    /\ Go(p, IF op[p].name \in {"Uninstall", "UninstallMultiple"} THEN "done" ELSE AfterCore(op[p]))
    /\ UNCHANGED <<dirs, lock, files, op, ver, ret, todo, env, obs, gone, made, api>>

----------------------------------------------------------------------------
\* Local inventory

\* os.ReadDir: the entries that are directories, by name.
ReadDir(d) ==
    LET names == {v \in DOMAIN d : d[v] # "absent"}
    IN  SortVersions(CHOOSE s \in Perms(names) : TRUE, FALSE)

\* innerListLocal (lines 649-666)
innerListLocal(d, reverseOrder) == SortVersions(ReadDir(d), reverseOrder)

----------------------------------------------------------------------------
\* Evaluate (lines 319-375), Install (377-392), searchInstallRemote (716-737)

\* Lines 320-345: a concrete version goes to the installation check (NoInstall)
\* or to the installer; anything else is parsed as a predicate.
EvaluateFrom(p, o, ob) ==
    LET nv == NewVersion(o.req)
        info == ParsePredicate(o.req)
    IN  IF nv.ok
        THEN /\ ver' = [ver EXCEPT ![p] = nv.text]
             /\ Go(p, IF o.noInstall THEN "ev_check" ELSE "isv_check1")
             /\ SetObs(p, ob)
             /\ ret' = [ret EXCEPT ![p] = NoRet]
        ELSE IF ~info.ok
        THEN /\ ver' = [ver EXCEPT ![p] = NoStr]
             /\ Go(p, AfterCore(o))
             /\ SetObs(p, Flush(ob, o.proxyCall, o.proxyCall))
             /\ SetRet(p, NoStr, "parse")
        ELSE /\ ver' = [ver EXCEPT ![p] = NoStr]
             /\ Go(p, "ev_local")
             /\ SetObs(p, ob)
             /\ ret' = [ret EXCEPT ![p] = NoRet]

\* Lines 378-386
InstallFrom(p, o) ==
    LET nv == NewVersion(o.req)
        info == ParsePredicate(o.req)
    IN  IF nv.ok
        THEN /\ ver' = [ver EXCEPT ![p] = nv.text]
             /\ Go(p, "isv_check1")
             /\ ret' = [ret EXCEPT ![p] = NoRet]
        ELSE IF ~info.ok
        THEN /\ ver' = [ver EXCEPT ![p] = NoStr]
             /\ Go(p, "done")
             /\ SetRet(p, NoStr, "parse")
        ELSE /\ ver' = [ver EXCEPT ![p] = NoStr]
             /\ Go(p, "sir_list")
             /\ ret' = [ret EXCEPT ![p] = NoRet]

\* The noInstall argument of searchInstallRemote: the configuration's flag
\* from Evaluate (line 374), false from Install (line 389).
SearchNoInstallFromConf(o) == o.noInstall

SearchNoInstall(o) == IF o.name = "Install" THEN FALSE ELSE o.noInstall

StartEvaluate(p) ==
    /\ pc[p] = "idle"
    /\ \E req \in Requests, ni \in BOOLEAN, fr \in BOOLEAN, px \in BOOLEAN :
        LET o == [NoOp EXCEPT !.name = "Evaluate", !.req = req, !.noInstall = ni,
                              !.forceRemote = fr, !.proxyCall = px]
        IN  /\ op' = [op EXCEPT ![p] = o]
            /\ EvaluateFrom(p, o, NoObs)
    /\ UNCHANGED <<dirs, lock, files, todo, env, armed, gone, made, api>>

\* Use calls Evaluate(requestedVersion, false) (line 599).
StartUse(p) ==
    /\ pc[p] = "idle"
    /\ \E req \in Requests, ni \in BOOLEAN, fr \in BOOLEAN, wd \in BOOLEAN :
        LET o == [NoOp EXCEPT !.name = "Use", !.req = req, !.noInstall = ni,
                              !.forceRemote = fr, !.workingDir = wd]
        IN  /\ op' = [op EXCEPT ![p] = o]
            /\ EvaluateFrom(p, o, NoObs)
    /\ UNCHANGED <<dirs, lock, files, todo, env, armed, gone, made, api>>

StartInstall(p, requests, twice) ==
    /\ pc[p] = "idle"
    /\ \E req \in requests, ni \in BOOLEAN :
        LET o == [NoOp EXCEPT !.name = "Install", !.req = req, !.noInstall = ni,
                              !.again = IF twice THEN "first" ELSE "no"]
        IN  /\ op' = [op EXCEPT ![p] = o]
            /\ InstallFrom(p, o)
    /\ UNCHANGED <<dirs, lock, files, todo, env, armed, obs, gone, made, api>>

\* Lines 323-335: NoInstall and a concrete version.
EvCheck(p) ==
    /\ pc[p] = "ev_check"
    /\ \E pathok \in BOOLEAN, statok \in BOOLEAN :
        /\ made' = InstallPath(made, pathok)
        /\ IF ~pathok \/ ~statok
           THEN /\ SetRet(p, NoStr, "fs")
                /\ UNCHANGED <<obs, gone>>
           ELSE IF StatFinds(dirs, ver[p])
           THEN /\ SetObs(p, Flush(obs[p], op[p].proxyCall, op[p].proxyCall))
                /\ SetRet(p, ver[p], "none")
                /\ gone' = [gone EXCEPT ![p] = dirs[ver[p]] = "partial"]
           ELSE /\ SetObs(p, Display(Flush(obs[p], FALSE, op[p].proxyCall), "auto-install-disabled"))
                /\ SetRet(p, ver[p], "NoCompatibleLocally")
                /\ UNCHANGED gone
    /\ Go(p, AfterCore(op[p]))
    /\ UNCHANGED <<dirs, lock, files, op, ver, todo, env, armed, api>>

\* Lines 347-372: the install path, then the local versions unless ForceRemote.
EvLocal(p) ==
    /\ pc[p] = "ev_local"
    /\ \E pathok \in BOOLEAN, readok \in BOOLEAN :
        /\ made' = InstallPath(made, pathok)
        /\ LET info == ParsePredicate(op[p].req)
               versions == innerListLocal(dirs, info.reverse)
               i == FirstMatch(info, versions)
               listed == [obs[p] EXCEPT !.locals = @ + 1]
           IN  IF ~pathok \/ (~op[p].forceRemote /\ ~readok)
               THEN /\ SetObs(p, Flush(obs[p], op[p].proxyCall, op[p].proxyCall))
                    /\ SetRet(p, NoStr, "fs")
                    /\ Go(p, AfterCore(op[p]))
                    /\ UNCHANGED <<ver, gone>>
               ELSE IF op[p].forceRemote
               THEN /\ Go(p, "sir_list")
                    /\ UNCHANGED <<obs, ret, ver, gone>>
               ELSE IF i > 0
               THEN /\ SetObs(p, Flush(Display(listed, "found-local"), op[p].proxyCall, op[p].proxyCall))
                    /\ SetRet(p, versions[i], "none")
                    /\ ver' = [ver EXCEPT ![p] = versions[i]]
                    /\ gone' = [gone EXCEPT ![p] = dirs[versions[i]] = "partial"]
                    /\ Go(p, AfterCore(op[p]))
               ELSE /\ SetObs(p, Display(listed, "no-local"))
                    /\ Go(p, "sir_list")
                    /\ UNCHANGED <<ret, ver, gone>>
    /\ UNCHANGED <<dirs, lock, files, op, todo, env, armed, api>>

\* ListRemote (lines 424-434): the releases of the retriever, sorted.
ListRemote(releases, reverseOrder) == SortVersions(releases, reverseOrder)

\* searchInstallRemote, lines 717-736, up to the call of the installer.
SearchInstallRemote(p) ==
    /\ pc[p] = "sir_list"
    /\ \E listok \in BOOLEAN, releases \in RemoteLists :
        LET info == ParsePredicate(op[p].req)
            versions == ListRemote(releases, info.reverse)
            i == FirstMatch(info, versions)
            failed == [obs[p] EXCEPT !.lists = @ + 1]
            called == [failed EXCEPT !.remote = releases]
        IN  IF ~listok
            THEN /\ SetObs(p, Flush(failed, op[p].proxyCall, op[p].proxyCall))
                 /\ SetRet(p, NoStr, "list")
                 /\ Go(p, AfterCore(op[p]))
                 /\ UNCHANGED ver
            ELSE IF i = 0
            THEN /\ SetObs(p, Flush(called, op[p].proxyCall, op[p].proxyCall))
                 /\ SetRet(p, NoStr, "NoCompatible")
                 /\ Go(p, AfterCore(op[p]))
                 /\ UNCHANGED ver
            ELSE IF SearchNoInstall(op[p])
            THEN /\ SetObs(p, Display(Flush(Display(called, "found-remote"), FALSE, op[p].proxyCall),
                                      "auto-install-disabled"))
                 /\ SetRet(p, versions[i], "NoCompatibleLocally")
                 /\ ver' = [ver EXCEPT ![p] = versions[i]]
                 /\ Go(p, AfterCore(op[p]))
            ELSE /\ SetObs(p, Display(called, "found-remote"))
                 /\ ver' = [ver EXCEPT ![p] = versions[i]]
                 /\ Go(p, "isv_check1")
                 /\ UNCHANGED ret
    /\ UNCHANGED <<dirs, lock, files, op, todo, env, armed, gone, made, api>>

\* The errors of Evaluate after which Use writes the version file (line 601).
UseGoesOnAlways(e) == TRUE

UseGoesOn(e) == e \in {"none", "NoCompatibleLocally"}

\* Use, lines 600-613: the result of Evaluate is in ret.
UseWrite(p) ==
    /\ pc[p] = "use_write"
    /\ \E fsok \in BOOLEAN :
        LET target == IF op[p].workingDir THEN "wd" ELSE "root"
            shown == IF ret[p].err = "none" THEN obs[p] ELSE Display(obs[p], "error")
        IN  IF ~UseGoesOn(ret[p].err)
            THEN UNCHANGED <<files, obs, ret>>
            ELSE IF fsok
            THEN /\ files' = [files EXCEPT ![target] = ret[p].version]
                 /\ SetObs(p, [Display(shown, "written") EXCEPT !.wrote = TRUE])
                 /\ SetRet(p, ret[p].version, "none")
            ELSE /\ SetObs(p, shown)
                 /\ SetRet(p, ret[p].version, "fs")
                 /\ UNCHANGED files
    /\ Go(p, "done")
    /\ UNCHANGED <<dirs, lock, op, ver, todo, env, armed, gone, made, api>>

----------------------------------------------------------------------------
\* Resolve (lines 480-506) and Detect (lines 307-316)

\* semantic.RetrieveVersion: the version files in order, each by its parser;
\* the first error or the first text that is not empty ends the scan. read is
\* the number of files parsed.
RECURSIVE RetrieveVersion(_, _)
RetrieveVersion(results, i) ==
    IF i > Len(results) THEN [text |-> NoStr, err |-> FALSE, read |-> Len(results)]
    ELSE IF results[i].err THEN [text |-> NoStr, err |-> TRUE, read |-> i]
    ELSE IF results[i].text # NoStr THEN [text |-> results[i].text, err |-> FALSE, read |-> i]
    ELSE RetrieveVersion(results, i + 1)

FileSources == <<"file-wd", "file-iac">>

\* Resolve reading the default environment variable before the version files.
ResolveDefaultFirst(e, fileResults, rootResult, defaultStrategy) ==
    LET r == RetrieveVersion(fileResults, 1)
        s1 == <<"env", "default-env">>
        s2 == s1 \o SubSeq(FileSources, 1, r.read)
    IN  IF e.version # NoStr THEN [text |-> e.version, err |-> FALSE, srcs |-> <<"env">>]
        ELSE IF e.default # NoStr THEN [text |-> e.default, err |-> FALSE, srcs |-> s1]
        ELSE IF r.err \/ r.text # NoStr THEN [text |-> r.text, err |-> r.err, srcs |-> s2]
        ELSE IF rootResult.err \/ rootResult.text # NoStr
        THEN [text |-> rootResult.text, err |-> rootResult.err, srcs |-> s2 \o <<"root-file">>]
        ELSE [text |-> defaultStrategy, err |-> FALSE, srcs |-> s2 \o <<"root-file", "fallback">>]

\* Resolve: the text found (or the error), and the sources consulted, in order.
Resolve(e, fileResults, rootResult, defaultStrategy) ==
    LET r == RetrieveVersion(fileResults, 1)
        s2 == <<"env">> \o SubSeq(FileSources, 1, r.read)
    IN  IF e.version # NoStr THEN [text |-> e.version, err |-> FALSE, srcs |-> <<"env">>]
        ELSE IF r.err \/ r.text # NoStr THEN [text |-> r.text, err |-> r.err, srcs |-> s2]
        ELSE IF e.default # NoStr
        THEN [text |-> e.default, err |-> FALSE, srcs |-> s2 \o <<"default-env">>]
        ELSE IF rootResult.err \/ rootResult.text # NoStr
        THEN [text |-> rootResult.text, err |-> rootResult.err,
              srcs |-> s2 \o <<"default-env", "root-file">>]
        ELSE [text |-> defaultStrategy, err |-> FALSE,
              srcs |-> s2 \o <<"default-env", "root-file", "fallback">>]

\* What the flat parser answers for a version file of the model.
FlatResult(content, fails) ==
    IF fails THEN [text |-> NoStr, err |-> TRUE] ELSE [text |-> content, err |-> FALSE]

\* semantic.LatestAllowedKey
LatestAllowedKey == <<"latest-allowed">>

\* The environments of a resolution: each source set or not, each parser
\* failing or not; the sources that are set have different values.
Environments ==
    [version : {NoStr, <<"1", ".", "0">>},
     default : {NoStr, <<"v", "1", ".", "1">>},
     iac : {[text |-> NoStr, err |-> FALSE], [text |-> <<"latest">>, err |-> FALSE],
            [text |-> NoStr, err |-> TRUE]},
     wdErr : BOOLEAN, rootErr : BOOLEAN]

StartDetect(p) ==
    /\ pc[p] = "idle"
    /\ \E e \in Environments : env' = [env EXCEPT ![p] = e]
    /\ op' = [op EXCEPT ![p] = [NoOp EXCEPT !.name = "Detect"]]
    /\ Go(p, "resolve")
    /\ UNCHANGED <<dirs, lock, files, ver, ret, todo, armed, obs, gone, made, api>>

\* Detect, lines 308-315: Resolve, then Evaluate of what it found.
DetectResolve(p) ==
    /\ pc[p] = "resolve"
    /\ \E ni \in BOOLEAN, fr \in BOOLEAN, px \in BOOLEAN :
        LET r == Resolve(env[p],
                         <<FlatResult(files["wd"], env[p].wdErr), env[p].iac>>,
                         FlatResult(files["root"], env[p].rootErr),
                         LatestAllowedKey)
            o == [op[p] EXCEPT !.req = r.text, !.noInstall = ni, !.forceRemote = fr,
                               !.proxyCall = px]
            ob == [obs[p] EXCEPT !.srcs = r.srcs]
        IN  /\ op' = [op EXCEPT ![p] = o]
            /\ IF r.err
               THEN /\ SetObs(p, Flush(ob, px, px))
                    /\ SetRet(p, NoStr, "resolve")
                    /\ Go(p, "done")
                    /\ UNCHANGED ver
               ELSE EvaluateFrom(p, o, ob)
    /\ env' = [env EXCEPT ![p] = NoEnv]
    /\ UNCHANGED <<dirs, lock, files, todo, armed, gone, made, api>>

----------------------------------------------------------------------------
\* ListLocal (lines 402-422)

StartListLocal(p) ==
    /\ pc[p] = "idle"
    /\ \E rev \in BOOLEAN :
        op' = [op EXCEPT ![p] = [NoOp EXCEPT !.name = "ListLocal", !.reverse = rev]]
    /\ Go(p, "ll_list")
    /\ UNCHANGED <<dirs, lock, files, ver, ret, todo, env, armed, obs, gone, made, api>>

ListLocalRead(p) ==
    /\ pc[p] = "ll_list"
    /\ \E pathok \in BOOLEAN, readok \in BOOLEAN :
        /\ made' = InstallPath(made, pathok)
        /\ IF pathok /\ readok
           THEN /\ ret' = [ret EXCEPT ![p] = [version |-> NoStr, err |-> "none",
                                               listing |-> innerListLocal(dirs, op[p].reverse)]]
                /\ SetObs(p, [obs[p] EXCEPT !.locals = @ + 1])
           ELSE /\ SetRet(p, NoStr, "fs")
                /\ UNCHANGED obs
    /\ Go(p, "done")
    /\ UNCHANGED <<dirs, lock, files, op, ver, todo, env, armed, gone, api>>

----------------------------------------------------------------------------
\* Uninstall (lines 527-578), UninstallMultiple (580-596),
\* uninstallSpecificVersion (739-753)

UninstallRequests ==
    ConcreteRequests \cup {<<"all">>, <<"<", "1", ".", "1">>, <<"bogus">>}

\* semantic.SelectVersionsToUninstall: every version, or those a constraint
\* selects, or an error.
SelectVersionsToUninstall(req, versions) ==
    IF req = <<"all">> THEN [ok |-> TRUE, selected |-> versions]
    ELSE IF ParsePredicate(req).ok /\ ParsePredicate(req).constraint # <<>>
    THEN [ok |-> TRUE,
          selected |-> SelectSeq(versions, LAMBDA v : ConstraintHolds(ParsePredicate(req).constraint, v))]
    ELSE [ok |-> FALSE, selected |-> <<>>]

\* The lists of versions given to UninstallMultiple: versions and empty texts.
BatchLists == SeqsUpTo(Versions \cup {NoStr}, MaxBatch)

\* The byte the prompt reads; EOF leaves the buffer at zero.
StdinBytes == {"y", "Y", "n", "EOF"}

\* Line 569: doUninstall
DoUninstallAnyByte(byte) == byte # "EOF"

DoUninstall(byte) == byte = "y" \/ byte = "Y"

\* Lines 528-531: InstallPath, before the lock.
UninstallFrom(p, requests, then) ==
    /\ pc[p] = "idle"
    /\ \E req \in requests, byte \in StdinBytes, pathok \in BOOLEAN :
        /\ NewVersion(req).ok => byte = "EOF"
        /\ op' = [op EXCEPT ![p] = [NoOp EXCEPT !.name = "Uninstall", !.req = req, !.stdin = byte,
                                                 !.then = then]]
        /\ made' = InstallPath(made, pathok)
        /\ IF pathok
           THEN Go(p, "un_lock") /\ ret' = [ret EXCEPT ![p] = NoRet]
           ELSE Go(p, "done") /\ SetRet(p, NoStr, "fs")
    /\ UNCHANGED <<dirs, lock, files, ver, todo, env, armed, obs, gone, api>>

StartUninstall(p, requests) == UninstallFrom(p, requests, "no")

\* The caller that uninstalls a version and lists the install directory next
\* makes its first call.
UninstallBeforeList(p) == UninstallFrom(p, Versions, "list")

\* Lines 581-584
StartUninstallMultiple(p) ==
    /\ pc[p] = "idle"
    /\ \E versions \in BatchLists, pathok \in BOOLEAN :
        /\ op' = [op EXCEPT ![p] = [NoOp EXCEPT !.name = "UninstallMultiple", !.batch = versions]]
        /\ todo' = [todo EXCEPT ![p] = IF pathok THEN versions ELSE <<>>]
        /\ made' = InstallPath(made, pathok)
        /\ IF pathok
           THEN Go(p, "un_lock") /\ ret' = [ret EXCEPT ![p] = NoRet]
           ELSE Go(p, "done") /\ SetRet(p, NoStr, "fs")
    /\ UNCHANGED <<dirs, lock, files, ver, env, armed, obs, gone, api>>

\* Lines 533, 586: lockfile.Write
UnLock(p) ==
    /\ pc[p] = "un_lock"
    /\ lock = NoProc
    /\ lock' = p
    /\ SetObs(p, [obs[p] EXCEPT !.locks = @ + 1])
    /\ Go(p, "un_arm")
    /\ UNCHANGED <<dirs, files, op, ver, ret, todo, env, armed, gone, made, api>>

\* A loop that ends after its first round.
RemovalPlaceOnce(versions) == "unlock"

\* A loop whose rounds acquire the lock themselves.
RemovalPlaceLocks(versions) == IF versions = <<>> THEN "unlock" ELSE "un_lock"

\* Where the removals start, or the release when there is nothing to remove.
RemovalPlace(versions) == IF versions = <<>> THEN "unlock" ELSE "un_remove"

\* Lines 534, 587: lockfile.CleanAndExitOnInterrupt
UnArm(p) ==
    /\ pc[p] = "un_arm"
    /\ armed' = [armed EXCEPT ![p] = TRUE]
    /\ Go(p, IF op[p].name = "Uninstall" THEN "un_select" ELSE RemovalPlace(todo[p]))
    /\ UNCHANGED <<dirs, lock, files, op, ver, ret, todo, env, obs, gone, made, api>>

\* Uninstall, lines 538-571: the concrete version, or the selection and the prompt.
UnSelect(p) ==
    /\ pc[p] = "un_select"
    /\ \E readok \in BOOLEAN :
        LET nv == NewVersion(op[p].req)
            versions == innerListLocal(dirs, TRUE)
            sel == SelectVersionsToUninstall(op[p].req, versions)
            listed == [obs[p] EXCEPT !.locals = @ + 1]
        IN  IF nv.ok
            THEN /\ todo' = [todo EXCEPT ![p] = <<nv.text>>]
                 /\ Go(p, "un_remove")
                 /\ UNCHANGED <<obs, ret>>
            ELSE IF ~readok
            THEN /\ SetRet(p, NoStr, "fs")
                 /\ Go(p, "unlock")
                 /\ UNCHANGED <<obs, todo>>
            ELSE IF ~sel.ok
            THEN /\ SetRet(p, NoStr, "parse")
                 /\ SetObs(p, listed)
                 /\ Go(p, "unlock")
                 /\ UNCHANGED todo
            ELSE IF sel.selected = <<>>
            THEN /\ SetObs(p, Display(listed, "no-matching"))
                 /\ Go(p, "unlock")
                 /\ UNCHANGED <<ret, todo>>
            ELSE IF ~DoUninstall(op[p].stdin)
            THEN /\ SetObs(p, Display(listed, "prompt"))
                 /\ Go(p, "unlock")
                 /\ UNCHANGED <<ret, todo>>
            ELSE /\ SetObs(p, Display(listed, "prompt"))
                 /\ todo' = [todo EXCEPT ![p] = sel.selected]
                 /\ Go(p, "un_remove")
                 /\ UNCHANGED ret
    /\ UNCHANGED <<dirs, lock, files, op, ver, env, armed, gone, made, api>>

\* os.RemoveAll removes what the directory contains, then the directory ("it
\* removes everything it can"): a directory that exists is no longer whole
\* once the removal has started.
RemoveAllStarts(d, v) == IF d[v] = "absent" THEN d ELSE [d EXCEPT ![v] = "partial"]

\* A removal that ends leaving what it found.
RemoveAllLeaves(d, v, success) == d

\* os.RemoveAll ends: nothing is left, or it failed on the way.
RemoveAllEnds(d, v, success) ==
    IF success \/ d[v] = "absent" THEN [d EXCEPT ![v] = "absent"] ELSE [d EXCEPT ![v] = "partial"]

\* uninstallSpecificVersion, lines 740-747, for the next version of the list:
\* the empty version is skipped; os.RemoveAll finds nothing to remove, or
\* fails at once, or starts removing.
UnRemove(p) ==
    /\ pc[p] = "un_remove"
    /\ todo[p] # <<>>
    /\ \E rmok \in BOOLEAN :
        LET v == Head(todo[p])
        IN  IF v = NoStr
            THEN /\ SetObs(p, Display(obs[p], "empty-version"))
                 /\ todo' = [todo EXCEPT ![p] = Tail(@)]
                 /\ Go(p, RemovalPlace(Tail(todo[p])))
                 /\ UNCHANGED <<dirs, op, ver, gone>>
            ELSE IF ~rmok
            THEN /\ SetObs(p, Display(obs[p], "uninstall-failed"))
                 /\ todo' = [todo EXCEPT ![p] = Tail(@)]
                 /\ Go(p, RemovalPlace(Tail(todo[p])))
                 /\ UNCHANGED <<dirs, op, ver, gone>>
            ELSE IF dirs[v] = "absent"
            THEN /\ SetObs(p, Display(obs[p], "uninstalled"))
                 /\ todo' = [todo EXCEPT ![p] = Tail(@)]
                 /\ Go(p, RemovalPlace(Tail(todo[p])))
                 /\ UNCHANGED <<dirs, op, ver, gone>>
            ELSE /\ dirs' = RemoveAllStarts(dirs, v)
                 /\ ver' = [ver EXCEPT ![p] = v]
                 /\ gone' = GoneAfterRemoval(p, v)
                 /\ op' = AgainAfterRemoval(v)
                 /\ Go(p, "un_removing")
                 /\ UNCHANGED <<obs, todo>>
    /\ UNCHANGED <<lock, files, ret, env, armed, made, api>>

\* Lines 747-752: os.RemoveAll ends: the directory is gone, or the removal
\* failed on the way and is displayed.
UnRemoved(p) ==
    /\ pc[p] = "un_removing"
    /\ \E rmok \in BOOLEAN :
        /\ dirs' = RemoveAllEnds(dirs, ver[p], rmok)
        /\ SetObs(p, Display(obs[p], IF rmok THEN "uninstalled" ELSE "uninstall-failed"))
    /\ gone' = GoneAfterRemoval(p, ver[p])
    /\ op' = AgainAfterRemoval(ver[p])
    /\ todo' = [todo EXCEPT ![p] = Tail(@)]
    /\ Go(p, RemovalPlace(Tail(todo[p])))
    /\ UNCHANGED <<lock, files, ver, ret, env, armed, made, api>>

----------------------------------------------------------------------------
\* Interrupts and the end of an operation

Running(p) == pc[p] \notin {"idle", "done", "exited"}

\* An interrupt signal. With the handler installed (CleanAndExitOnInterrupt,
\* lines 688, 534, 587), deleteLock runs and the process exits; without it
\* the process ends at once and what it has written stays. Whatever the
\* process was doing to the install directory stops there, and what it had
\* to display is lost with it.
Interrupt(p) ==
    /\ Running(p)
    /\ IF armed[p] THEN lock' \in DeleteLock(lock, p) ELSE UNCHANGED lock
    /\ dirs' = IF pc[p] = "isv_retrieve" THEN InstallReleaseCut(dirs, ver[p]) ELSE dirs
    /\ armed' = [armed EXCEPT ![p] = FALSE]
    /\ SetRet(p, NoStr, "exit")
    /\ Go(p, "exited")
    /\ env' = [env EXCEPT ![p] = NoEnv]
    /\ op' = [op EXCEPT ![p] = [NoOp EXCEPT !.name = op[p].name]]
    /\ ver' = [ver EXCEPT ![p] = NoStr]
    /\ todo' = [todo EXCEPT ![p] = <<>>]
    /\ gone' = [gone EXCEPT ![p] = FALSE]
    /\ obs' = [obs EXCEPT ![p] = NoObs]
    /\ UNCHANGED <<files, made, api>>

\* The caller that installs a version twice in a row makes its second call:
\* Install has returned (with no error, or with the error of the retriever)
\* and is called again with the same version.
InstallAgain(p) ==
    /\ pc[p] = "done"
    /\ op[p].name = "Install"
    /\ op[p].again = "first"
    /\ ret[p].err \in {"none", "retriever"}
    /\ LET how == IF gone[p] THEN "no" ELSE IF ret[p].err = "none" THEN "ok" ELSE "failed"
           o == [op[p] EXCEPT !.again = how]
       IN  /\ op' = [op EXCEPT ![p] = o]
           /\ InstallFrom(p, o)
    /\ obs' = [obs EXCEPT ![p] = NoObs]
    /\ gone' = [gone EXCEPT ![p] = FALSE]
    /\ UNCHANGED <<dirs, lock, files, todo, env, armed, made, api>>

\* The caller that has uninstalled a version lists the install directory:
\* Uninstall has returned with no error and ListLocal is called. What was
\* displayed stays displayed.
ListLocalAfter(p) ==
    /\ pc[p] = "done"
    /\ op[p].name = "Uninstall"
    /\ NewVersion(op[p].req).ok
    /\ ret[p].err = "none"
    /\ \E rev \in BOOLEAN :
        op' = [op EXCEPT ![p] = [@ EXCEPT !.name = "ListLocal", !.reverse = rev]]
    /\ Go(p, "ll_list")
    /\ ret' = [ret EXCEPT ![p] = NoRet]
    /\ UNCHANGED <<dirs, lock, files, ver, todo, env, armed, obs, gone, made, api>>

\* The operation has returned (or the process has exited): the process is
\* free for the next invocation.
Return(p) ==
    /\ pc[p] \in {"done", "exited"}
    /\ Go(p, "idle")
    /\ op' = [op EXCEPT ![p] = NoOp]
    /\ ver' = [ver EXCEPT ![p] = NoStr]
    /\ ret' = [ret EXCEPT ![p] = NoRet]
    /\ todo' = [todo EXCEPT ![p] = <<>>]
    /\ obs' = [obs EXCEPT ![p] = NoObs]
    /\ gone' = [gone EXCEPT ![p] = FALSE]
    /\ UNCHANGED <<dirs, lock, files, env, armed, made, api>>

----------------------------------------------------------------------------
\* The release catalog client: ListReleases (lines 100-121), LatestRelease
\* (80-98), DownloadAssetURL (37-78)

\* What the catalog client leaves alone: the version manager and its files.
engine == <<dirs, lock, files, pc, op, ver, ret, todo, env, armed, obs, gone, made>>

\* A call starts, on a client at rest.
Call(fn) ==
    [NoApi EXCEPT !.releasePages = api.releasePages, !.assetPages = api.assetPages,
                  !.tail = api.tail, !.fn = fn, !.state = "running"]

\* The call ends with an error: nil (or "") is returned with it.
Fails(a, e) ==
    [a EXCEPT !.state = "error", !.err = e, !.releases = <<>>, !.assets = NoAssets,
              !.version = NoStr]

\* page++ (lines 76, 119), and a step of two.
NextPageSkips(page) == page + 2

NextPage(page) == page + 1

\* Lines 101-105
StartListReleases ==
    /\ api.state = "idle"
    /\ api' = Call("ListReleases")
    /\ UNCHANGED engine

\* Lines 107-119: one turn of the loop. (The server of the model has no more
\* than MaxPages + 1 different answers.)
ListReleasesPage ==
    /\ api.fn = "ListReleases"
    /\ api.state = "running"
    /\ api.page <= MaxPages + 1
    /\ LET value == apiGetRequest(api.releasePages, api.tail, api.page)
           asked == [api EXCEPT !.asked = Append(@, api.page)]
           r == extractReleases(api.releases, value)
       IN  api' = IF value.err THEN Fails(asked, "transport")
                  ELSE IF r.err = "none" THEN [asked EXCEPT !.state = "ok", !.releases = r.releases]
                  ELSE IF r.err # "continue" THEN Fails(asked, r.err)
                  ELSE [asked EXCEPT !.releases = r.releases, !.page = NextPage(@)]
    /\ UNCHANGED engine

\* What the server answers when asked for its latest release: the first
\* release of its first page, and an error when it has none.
LatestValue(pages, tail) ==
    LET first == apiGetRequest(pages, tail, 1)
    IN  IF first.isArray /\ first.values # <<>>
        THEN [err |-> FALSE, value |-> first.values[1]]
        ELSE [err |-> TRUE, value |-> [tag_name |-> NoStr]]

\* Lines 80-98
LatestRelease ==
    /\ api.state = "idle"
    /\ LET answer == LatestValue(api.releasePages, api.tail)
           r == extractVersion(answer.value)
           called == [Call("LatestRelease") EXCEPT !.tag = answer.value.tag_name]
       IN  api' = IF answer.err THEN Fails(called, "transport")
                  ELSE IF ~r.ok THEN Fails(called, "ErrReturn")
                  ELSE [called EXCEPT !.state = "ok", !.version = r.version]
    /\ UNCHANGED engine

\* The lists of names searched: none, one, two, and one name twice.
SearchedLists == {<<>>, <<"a">>, <<"a", "b">>, <<"a", "a">>}

\* Lines 38-63: the request of the release and its assets_url.
StartDownloadAssetURL ==
    /\ api.state = "idle"
    /\ \E searchedAssetNames \in SearchedLists, release \in {"fails", "no-assets-url", "ok"} :
        LET called == [Call("DownloadAssetURL") EXCEPT !.searched = searchedAssetNames]
        IN  api' = IF release = "fails" THEN Fails(called, "transport")
                   ELSE IF release = "no-assets-url" THEN Fails(called, "ErrReturn")
                   ELSE called
    /\ UNCHANGED engine

\* Lines 65-76: one turn of the loop.
DownloadAssetPage ==
    /\ api.fn = "DownloadAssetURL"
    /\ api.state = "running"
    /\ api.page <= MaxPages + 1
    /\ LET value == apiGetRequest(api.assetPages, api.tail, api.page)
           asked == [api EXCEPT !.asked = Append(@, api.page)]
           searchedAssetNameSet == {api.searched[i] : i \in 1..Len(api.searched)}
           r == extractAssets(api.assets, searchedAssetNameSet, Waited(api.searched), value)
       IN  api' = IF value.err THEN Fails(asked, "transport")
                  ELSE IF r.err = "none" THEN [asked EXCEPT !.state = "ok", !.assets = r.assets]
                  ELSE IF r.err # "continue" THEN Fails(asked, r.err)
                  ELSE [asked EXCEPT !.assets = r.assets, !.page = NextPage(@)]
    /\ UNCHANGED engine

\* The version manager at rest, with nothing installed.
EngineAtRest ==
    /\ dirs = [v \in DirNames |-> "absent"]
    /\ lock = NoProc
    /\ files = [f \in {"root", "wd"} |-> NoStr]
    /\ pc = [p \in Procs |-> "idle"]
    /\ op = [p \in Procs |-> NoOp]
    /\ ver = [p \in Procs |-> NoStr]
    /\ ret = [p \in Procs |-> NoRet]
    /\ todo = [p \in Procs |-> <<>>]
    /\ env = [p \in Procs |-> NoEnv]
    /\ armed = [p \in Procs |-> FALSE]
    /\ obs = [p \in Procs |-> NoObs]
    /\ gone = [p \in Procs |-> FALSE]
    /\ made = FALSE

Tails == {"empty", "repeat"}

\* The releases of a server, listed and asked for the latest; a call under
\* way goes on.
InitReleases ==
    /\ EngineAtRest
    /\ \E pages \in SeqsUpTo(PageValues(ReleaseObjects), MaxPages), tail \in Tails :
        api = [NoApi EXCEPT !.releasePages = pages, !.tail = tail]

NextReleases ==
    \/ StartListReleases
    \/ ListReleasesPage
    \/ LatestRelease

SpecReleases == InitReleases /\ [][NextReleases]_vars /\ WF_vars(ListReleasesPage)

\* The assets of a release on a server, searched by name.
InitAssets ==
    /\ EngineAtRest
    /\ \E pages \in SeqsUpTo(PageValues(AssetObjects), MaxPages), tail \in Tails :
        api = [NoApi EXCEPT !.assetPages = pages, !.tail = tail]

NextAssets ==
    \/ StartDownloadAssetURL
    \/ DownloadAssetPage

SpecAssets == InitAssets /\ [][NextAssets]_vars

----------------------------------------------------------------------------
\* The processes sharing one install directory

\* The process that runs the facade alone.
Facade == "p1"

\* One process runs the operations of the facade on the install directory,
\* one after the other.
Next ==
    \E p \in {Facade} :
        \/ StartEvaluate(p)
        \/ StartInstall(p, Requests, FALSE)
        \/ StartDetect(p)
        \/ StartListLocal(p)
        \/ StartUninstall(p, UninstallRequests)
        \/ StartUninstallMultiple(p)
        \/ DetectResolve(p)
        \/ EvCheck(p)
        \/ EvLocal(p)
        \/ SearchInstallRemote(p)
        \/ IsvFirstCheck(p)
        \/ IsvLock(p)
        \/ IsvArm(p)
        \/ IsvSecondCheck(p)
        \/ IsvRetrieve(p)
        \/ ListLocalRead(p)
        \/ UnLock(p)
        \/ UnArm(p)
        \/ UnSelect(p)
        \/ UnRemove(p)
        \/ UnRemoved(p)
        \/ Unlock(p)
        \/ Disarm(p)
        \/ Interrupt(p)
        \/ Return(p)

Spec == Init /\ [][Next]_vars

\* One process writes the version files (Use) and resolves them (Detect),
\* one operation after the other.
NextFiles ==
    \E p \in {Facade} :
        \/ StartUse(p)
        \/ StartDetect(p)
        \/ DetectResolve(p)
        \/ EvCheck(p)
        \/ EvLocal(p)
        \/ SearchInstallRemote(p)
        \/ IsvFirstCheck(p)
        \/ IsvLock(p)
        \/ IsvArm(p)
        \/ IsvSecondCheck(p)
        \/ IsvRetrieve(p)
        \/ UseWrite(p)
        \/ Unlock(p)
        \/ Disarm(p)
        \/ Interrupt(p)
        \/ Return(p)

SpecFiles == Init /\ [][NextFiles]_vars

\* Several processes install, uninstall and list concrete versions in the
\* same install directory, in every interleaving of their steps.
NextShared ==
    \E p \in Procs :
        \/ StartInstall(p, Versions, FALSE)
        \/ StartUninstall(p, Versions)
        \/ StartListLocal(p)
        \/ IsvFirstCheck(p)
        \/ IsvLock(p)
        \/ IsvArm(p)
        \/ IsvSecondCheck(p)
        \/ IsvRetrieve(p)
        \/ ListLocalRead(p)
        \/ UnLock(p)
        \/ UnArm(p)
        \/ UnSelect(p)
        \/ UnRemove(p)
        \/ UnRemoved(p)
        \/ Unlock(p)
        \/ Disarm(p)
        \/ Interrupt(p)
        \/ Return(p)

SpecShared == Init /\ [][NextShared]_vars

\* A caller installs a version twice in a row while another process installs
\* and uninstalls versions in the same install directory.
NextTwice ==
    \/ StartInstall(Facade, Versions, TRUE)
    \/ InstallAgain(Facade)
    \/ \E p \in Procs \ {Facade} :
        \/ StartInstall(p, Versions, FALSE)
        \/ StartUninstall(p, Versions)
    \/ \E p \in Procs :
        \/ IsvFirstCheck(p)
        \/ IsvLock(p)
        \/ IsvArm(p)
        \/ IsvSecondCheck(p)
        \/ IsvRetrieve(p)
        \/ UnLock(p)
        \/ UnArm(p)
        \/ UnSelect(p)
        \/ UnRemove(p)
        \/ UnRemoved(p)
        \/ Unlock(p)
        \/ Disarm(p)
        \/ Interrupt(p)
        \/ Return(p)

SpecTwice == Init /\ [][NextTwice]_vars

\* A caller uninstalls a version, then lists the install directory, while
\* another process installs versions in the same directory.
NextAfter ==
    \/ UninstallBeforeList(Facade)
    \/ ListLocalAfter(Facade)
    \/ \E p \in Procs \ {Facade} : StartInstall(p, Versions, FALSE)
    \/ \E p \in Procs :
        \/ IsvFirstCheck(p)
        \/ IsvLock(p)
        \/ IsvArm(p)
        \/ IsvSecondCheck(p)
        \/ IsvRetrieve(p)
        \/ ListLocalRead(p)
        \/ UnLock(p)
        \/ UnArm(p)
        \/ UnSelect(p)
        \/ UnRemove(p)
        \/ UnRemoved(p)
        \/ Unlock(p)
        \/ Disarm(p)
        \/ Interrupt(p)
        \/ Return(p)

SpecAfter == Init /\ [][NextAfter]_vars

----------------------------------------------------------------------------
\* Two installers of the same version, not installed when they start

InitRace ==
    /\ \E v \in Versions :
        /\ dirs \in {d \in [DirNames -> {"absent", "full"}] : d[v] = "absent"}
        /\ ver = [p \in Procs |-> v]
        /\ \E ni \in BOOLEAN :
            op = [p \in Procs |-> [NoOp EXCEPT !.name = "Install", !.req = v, !.noInstall = ni]]
    /\ lock = NoProc
    /\ files = [f \in {"root", "wd"} |-> NoStr]
    /\ pc = [p \in Procs |-> "isv_check1"]
    /\ ret = [p \in Procs |-> NoRet]
    /\ todo = [p \in Procs |-> <<>>]
    /\ env = [p \in Procs |-> NoEnv]
    /\ armed = [p \in Procs |-> FALSE]
    /\ obs = [p \in Procs |-> NoObs]
    /\ gone = [p \in Procs |-> FALSE]
    /\ made \in {b \in BOOLEAN : (\E v \in DirNames : dirs[v] # "absent") => b}
    /\ api = NoApi

NextRace ==
    \E p \in Procs :
        \/ IsvFirstCheck(p)
        \/ IsvLock(p)
        \/ IsvArm(p)
        \/ IsvSecondCheck(p)
        \/ IsvRetrieve(p)
        \/ Unlock(p)
        \/ Disarm(p)
        \/ Interrupt(p)

SpecRace == InitRace /\ [][NextRace]_vars

----------------------------------------------------------------------------
\* Properties

RECURSIVE SumCalls(_)
SumCalls(S) ==
    IF S = {} THEN 0
    ELSE LET p == CHOOSE q \in S : TRUE IN obs[p].calls + SumCalls(S \ {p})

\* The calls of retriever.InstallRelease made by all the processes together.
TotalCalls == SumCalls(Procs)

\* Every installer has returned, none stopped by an interrupt or by an error
\* of the file system.
RaceReturned == \A p \in Procs : pc[p] = "done" /\ ret[p].err \in {"none", "retriever"}

\* C1, as stated: two processes install the same version V, not installed
\* when they start; in every interleaving retriever.InstallRelease is called
\* exactly once in total.
C1_ExactlyOneCall == RaceReturned => TotalCalls = 1

\* C1, amended: the installers together call retriever.InstallRelease once
\* when that call succeeds; a call that fails leaves V absent and the other
\* installer, whose locked second check finds V missing, calls it again (two
\* calls in total). No call is under way, and none starts, while V exists.
C1_OneCallUnlessItFails ==
    /\ RaceReturned => (TotalCalls = 1 <=> \A p \in Procs : ret[p].err = "none")
    /\ RaceReturned => TotalCalls \in {1, 2}
    /\ \A p \in Procs : pc[p] = "isv_retrieve" => dirs[ver[p]] = "absent"

\* Both installers passed the first check, took the lock in turn, and the
\* second check of the later one found the version the first had installed.
C1_Witness ==
    /\ \A p \in Procs : pc[p] = "done" /\ ret[p].err = "none" /\ obs[p].locks = 1
    /\ TotalCalls = 1

\* C2, as stated: whenever the installer returns success, the directory of
\* the version exists and is populated at that moment, on each path and in
\* every interleaving with processes that install or uninstall.
C2_PopulatedAtReturn ==
    [][\A p \in Procs :
        (/\ pc[p] # "done" /\ pc'[p] = "done"
         /\ op'[p].name = "Install" /\ ret'[p].err = "none")
        => dirs'[ver'[p]] = "full"]_vars

\* C2, amended: from the moment the installer finds the directory (first or
\* second check) or the retriever has populated it, up to and after its
\* return with success, the directory exists and is populated, unless a
\* removal of that version by another process was under way (or a removal
\* had been left unfinished) when the installer found the directory, or has
\* been under way since.
C2_PopulatedUnlessRemoved ==
    \A p \in Procs :
        (/\ pc[p] \in {"unlock", "disarm", "done"}
         /\ op[p].name = "Install" /\ ret[p].err = "none"
         /\ ~gone[p])
        => dirs[ver[p]] = "full"

\* An installer has returned from a retriever call that succeeded while
\* another process is removing another version.
C2_Witness ==
    \E p \in Procs, q \in Procs :
        /\ pc[p] = "done" /\ op[p].name = "Install" /\ ret[p].err = "none"
        /\ obs[p].calls = 1 /\ ~gone[p] /\ dirs[ver[p]] = "full"
        /\ q # p /\ pc[q] = "un_removing"

\* C3: a version directory exists only if the version is fully installed, in
\* every reachable state (so no reader observes a partial one), and after an
\* install that failed in the retriever the directory does not exist.
C3_DirectoryIffInstalled ==
    /\ \A v \in DirNames : dirs[v] \in {"absent", "full"}
    /\ \A p \in Procs :
        (pc[p] = "unlock" /\ op[p].name = "Install" /\ ret[p].err = "retriever" /\ lock = p)
        => dirs[ver[p]] = "absent"

\* C4, as stated: Install(V) followed by Install(V), no uninstall of V in
\* between: the second call calls no retriever, finds V in the first check,
\* reports it, returns success and takes no lock. (The first check failing
\* in the file system is left aside.)
C4_SecondInstallNoOp ==
    \A p \in Procs :
        (pc[p] = "done" /\ op[p].again \in {"ok", "failed"} /\ ret[p].err # "fs")
        => /\ obs[p].calls = 0
           /\ obs[p].locks = 0
           /\ ret[p].err = "none"
           /\ "already" \in obs[p].shown

\* C4, amended: the same after an Install(V) that returned success.
C4_SecondInstallNoOpAfterSuccess ==
    \A p \in Procs :
        (pc[p] = "done" /\ op[p].again = "ok" /\ ret[p].err # "fs")
        => /\ obs[p].calls = 0
           /\ obs[p].locks = 0
           /\ ret[p].err = "none"
           /\ "already" \in obs[p].shown

\* A second Install(V) has returned after a first one that succeeded, while
\* the other process runs an operation of its own.
C4_Witness ==
    \E p \in Procs, q \in Procs :
        /\ pc[p] = "done" /\ op[p].again = "ok" /\ ret[p].err = "none"
        /\ q # p /\ Running(q)

----------------------------------------------------------------------------
\* Resolve (C5)

\* The sources of Resolve in the order of their precedence.
SourceOrder == <<"env", "file-wd", "file-iac", "default-env", "root-file", "fallback">>

\* What each source holds for a process that resolves, and which of them
\* cannot be read.
SourceValues(p) ==
    <<env[p].version,
      IF env[p].wdErr THEN NoStr ELSE files["wd"],
      env[p].iac.text,
      env[p].default,
      IF env[p].rootErr THEN NoStr ELSE files["root"],
      LatestAllowedKey>>

SourceFails(p) == <<FALSE, env[p].wdErr, env[p].iac.err, FALSE, env[p].rootErr, FALSE>>

FirstSet(values) ==
    CHOOSE i \in 1..Len(values) : values[i] # NoStr /\ \A j \in 1..(i - 1) : values[j] = NoStr

FirstFailing(fails) ==
    IF \E i \in 1..Len(fails) : fails[i]
    THEN CHOOSE i \in 1..Len(fails) : fails[i] /\ \A j \in 1..(i - 1) : ~fails[j]
    ELSE Len(fails) + 1

\* C5: Resolve returns the value of the first source that is not empty, in
\* the order version env var, version files, default-version env var, root
\* version file, fallback strategy, and consults no source after that one
\* (a source before it that cannot be read ends the resolution with an error).
C5_ResolvePrecedence ==
    [][\A p \in Procs :
        (pc[p] = "resolve" /\ pc'[p] \notin {"resolve", "exited"})
        => LET k == FirstSet(SourceValues(p))
               f == FirstFailing(SourceFails(p))
           IN  IF f < k
               THEN /\ ret'[p].err = "resolve"
                    /\ obs'[p].srcs = SubSeq(SourceOrder, 1, f)
               ELSE /\ ret'[p].err # "resolve"
                    /\ op'[p].req = SourceValues(p)[k]
                    /\ obs'[p].srcs = SubSeq(SourceOrder, 1, k)]_vars

\* Detect has resolved to the default-version variable, the version variable
\* and the version files being empty, while the root version file holds a
\* version that is not read.
C5_Witness ==
    \E p \in Procs :
        /\ op[p].name = "Detect"
        /\ op[p].req = <<"v", "1", ".", "1">>
        /\ obs[p].srcs = SubSeq(SourceOrder, 1, 4)
        /\ files["root"] # NoStr

----------------------------------------------------------------------------
\* Evaluate, Install, Use (C6 - C10)

\* The operations that run Evaluate.
Evaluates(p) == op[p].name \in {"Evaluate", "Detect", "Use"}

\* The directory of the version exists in the install directory.
Exists(d, v) == v \in DirNames /\ d[v] # "absent"

\* The canonical text of a requested concrete version: three segments, no "v".
IsCanonicalOf(v, req) == v \in Versions /\ Segments(v) = Segments(req) /\ v[1] # "v"

\* What the NoInstall check of a concrete version returns and leaves behind.
NoInstallAnswer(p) ==
    /\ obs'[p].calls = 0 /\ obs'[p].lists = 0 /\ obs'[p].locks = 0
    /\ dirs' = dirs
    /\ IsCanonicalOf(ret'[p].version, op[p].req)
    /\ ret'[p].err = IF Exists(dirs, ret'[p].version) THEN "none" ELSE "NoCompatibleLocally"

CheckReturns(p) ==
    /\ pc[p] = "ev_check" /\ pc'[p] \notin {"ev_check", "exited"}
    /\ Evaluates(p) /\ ret'[p].err # "fs"

\* C6, as stated: Evaluate of a concrete version with no_install calls no
\* retriever and creates no directory at all; it returns the canonical version
\* with no error when its directory exists, with NoCompatibleLocally when not.
C6_NoInstallCreatesNoDirectory ==
    [][\A p \in Procs : CheckReturns(p) => (NoInstallAnswer(p) /\ made' = made)]_vars

\* C6, amended: the same, creating no version directory; the install
\* directory itself is made when it is missing.
C6_NoInstallCreatesNoVersion ==
    [][\A p \in Procs : CheckReturns(p) => (NoInstallAnswer(p) /\ made')]_vars

\* Evaluate of "v1.1.0" with no_install has returned 1.1.0 and
\* NoCompatibleLocally, in an install directory it has just made.
C6_Witness ==
    \E p \in Procs :
        /\ pc[p] = "done" /\ op[p].name = "Evaluate" /\ op[p].noInstall
        /\ op[p].req = <<"v", "1", ".", "1", ".", "0">>
        /\ ret[p].version = <<"1", ".", "1", ".", "0">>
        /\ ret[p].err = "NoCompatibleLocally"
        /\ "auto-install-disabled" \in obs[p].shown
        /\ made /\ \A v \in DirNames : dirs[v] = "absent"

Range(s) == {s[i] : i \in 1..Len(s)}

\* The versions of a set that satisfy the predicate of a request, and the one
\* the scan meets first: the newest when the order is reversed, else the oldest.
Satisfying(req, S) == {v \in S : Predicate(ParsePredicate(req), v)}

Best(req, S) ==
    CHOOSE v \in Satisfying(req, S) :
        \A w \in Satisfying(req, S) :
            IF ParsePredicate(req).reverse THEN CmpVersion(v, w) >= 0 ELSE CmpVersion(v, w) <= 0

LocalVersions(d) == {v \in DirNames : Exists(d, v)}

NoInstallArgument(p) == op[p].name # "Install" /\ op[p].noInstall

\* The remote search has found a version and the operation has its result.
SearchEnded(p) ==
    /\ pc[p] \in {"use_write", "done"}
    /\ "found-remote" \in obs[p].shown
    /\ ~obs[p].wrote
    /\ ret[p].err \notin {"fs", "exit"}

\* C8: searchInstallRemote takes the first version of the remote list, sorted
\* by reverse_order, that satisfies the predicate. With no_install it
\* returns it with NoCompatibleLocally and installs nothing; otherwise it
\* runs the installer on it and returns it, its directory existing when the
\* installer reports no error. When no remote version satisfies the
\* predicate it returns the empty version with NoCompatible, nothing installed.
C8_SearchStep ==
    [][\A p \in Procs :
        (/\ pc[p] = "sir_list" /\ pc'[p] \notin {"sir_list", "exited"}
         /\ ret'[p].err # "list")
        => LET found == Satisfying(op[p].req, Range(obs'[p].remote))
           IN  /\ obs'[p].lists = 1
               /\ dirs' = dirs
               /\ IF found = {}
                  THEN /\ pc'[p] = AfterCore(op[p])
                       /\ ret'[p].version = NoStr /\ ret'[p].err = "NoCompatible"
                       /\ obs'[p].calls = 0 /\ obs'[p].locks = 0
                  ELSE IF NoInstallArgument(p)
                  THEN /\ pc'[p] = AfterCore(op[p])
                       /\ ret'[p].version = Best(op[p].req, Range(obs'[p].remote))
                       /\ ret'[p].err = "NoCompatibleLocally"
                       /\ obs'[p].calls = 0 /\ obs'[p].locks = 0
                  ELSE /\ pc'[p] = "isv_check1"
                       /\ ver'[p] = Best(op[p].req, Range(obs'[p].remote))]_vars

C8_SearchResult ==
    \A p \in Procs :
        SearchEnded(p)
        => /\ ver[p] = Best(op[p].req, Range(obs[p].remote))
           /\ ret[p].version = CoreVersion(op[p], ver[p])
           /\ ret[p].err \in {"none", "retriever", "NoCompatibleLocally"}
           /\ ret[p].err = "NoCompatibleLocally" <=> NoInstallArgument(p)
           /\ ret[p].err = "none" => Exists(dirs, ver[p])
           /\ ret[p].err = "NoCompatibleLocally" => obs[p].calls = 0 /\ obs[p].locks = 0

C8_SearchInstallRemote == C8_SearchStep /\ []C8_SearchResult

\* Evaluate of min-required with force_remote, the retriever listing 1.1.0
\* before 1.0.0: the oldest, 1.0.0, has been installed and returned.
C8_Witness ==
    \E p \in Procs :
        /\ pc[p] = "done" /\ op[p].name = "Evaluate" /\ op[p].forceRemote
        /\ op[p].req = <<"min-required">>
        /\ obs[p].remote = <<<<"1", ".", "1", ".", "0">>, <<"1", ".", "0", ".", "0">>>>
        /\ ret[p].version = <<"1", ".", "0", ".", "0">> /\ ret[p].err = "none"
        /\ obs[p].calls = 1 /\ dirs[ret[p].version] = "full"

\* The version file Use writes.
Target(p) == IF op[p].workingDir THEN "wd" ELSE "root"

\* C9: Use writes the version Evaluate returned to the target version file
\* exactly when Evaluate returned no error or NoCompatibleLocally (displayed,
\* and Use then returns the outcome of the write alone); after any other
\* error of Evaluate it returns that error and writes nothing.
C9_UseWritesOrFails ==
    [][\A p \in Procs :
        (pc[p] = "use_write" /\ pc'[p] = "done")
        => IF ret[p].err \in {"none", "NoCompatibleLocally"}
           THEN /\ ret[p].err = "NoCompatibleLocally" => "error" \in obs'[p].shown
                /\ \/ /\ obs'[p].wrote /\ ret'[p].err = "none"
                      /\ files' = [files EXCEPT ![Target(p)] = ret[p].version]
                   \/ /\ ~obs'[p].wrote /\ ret'[p].err = "fs"
                      /\ files' = files
           ELSE /\ ret'[p].err = ret[p].err
                /\ ~obs'[p].wrote
                /\ files' = files]_vars

\* Use of a version that is not installed, with no_install: the version is
\* written to the working-directory file, the error displayed, no error returned.
C9_Witness ==
    \E p \in Procs :
        /\ pc[p] = "done" /\ op[p].name = "Use" /\ op[p].noInstall /\ op[p].workingDir
        /\ obs[p].wrote /\ "error" \in obs[p].shown /\ "auto-install-disabled" \in obs[p].shown
        /\ ret[p].err = "none"
        /\ files["wd"] = ver[p] /\ ver[p] \in Versions /\ dirs[ver[p]] = "absent"

\* C10: Install of a constraint or strategy runs the remote search with
\* no_install false, whatever the configuration: when a remote version
\* satisfies the predicate the installer is run on the first one, and Install
\* never returns NoCompatibleLocally nor lists the local versions. Install
\* of a concrete version goes to the installer without listing the releases.
C10_InstallStep ==
    [][\A p \in Procs :
        (/\ pc[p] = "sir_list" /\ pc'[p] \notin {"sir_list", "exited"}
         /\ op[p].name = "Install" /\ ret'[p].err # "list"
         /\ Satisfying(op[p].req, Range(obs'[p].remote)) # {})
        => /\ pc'[p] = "isv_check1"
           /\ ver'[p] = Best(op[p].req, Range(obs'[p].remote))]_vars

C10_InstallResult ==
    \A p \in Procs :
        op[p].name = "Install"
        => /\ ret[p].err # "NoCompatibleLocally"
           /\ obs[p].locals = 0
           /\ NewVersion(op[p].req).ok => obs[p].lists = 0 /\ pc[p] # "sir_list"
           /\ (~NewVersion(op[p].req).ok /\ pc[p] = "done" /\ ret[p].err = "none")
              => /\ obs[p].lists = 1
                 /\ ver[p] = Best(op[p].req, Range(obs[p].remote))
                 /\ Exists(dirs, ver[p])

C10_InstallForcesInstall == C10_InstallStep /\ []C10_InstallResult

\* Install of "latest" with no_install set in the configuration has called
\* the retriever and installed the newest remote version.
C10_Witness ==
    \E p \in Procs :
        /\ pc[p] = "done" /\ op[p].name = "Install" /\ op[p].noInstall
        /\ op[p].req = <<"latest">> /\ ret[p].err = "none"
        /\ obs[p].lists = 1 /\ obs[p].calls = 1
        /\ Len(obs[p].remote) = 2
        /\ ver[p] = <<"1", ".", "1", ".", "0">> /\ dirs[ver[p]] = "full"
----------------------------------------------------------------------------
\* The pages of releases as the server serves them

Served(n) == apiGetRequest(api.releasePages, api.tail, n)

\* A page of releases that ListReleases can read: an array, every object of
\* which has a tag name.
GoodPage(n) ==
    /\ ~Served(n).err
    /\ Served(n).isArray
    /\ \A i \in 1..Len(Served(n).values) : Served(n).values[i].tag_name # NoStr

FullPage(n) == GoodPage(n) /\ Served(n).values # <<>>

\* The tag names of the pages 1..k without their leading "v", in page order.
RECURSIVE TagsUpTo(_)
TagsUpTo(k) ==
    IF k = 0 THEN <<>>
    ELSE TagsUpTo(k - 1) \o [i \in 1..Len(Served(k).values) |-> StripV(Served(k).values[i].tag_name)]

\* The pages requested are 1, 2, 3, ... with none skipped or repeated; all
\* but the last one requested were full pages; the call goes on after full
\* pages only, ends well on an empty page only, with the tags of all the pages
\* before, and ends with an error and no list on any other page.
C11_Paging ==
    api.fn = "ListReleases" =>
        LET k == Len(api.asked)
        IN  /\ api.asked = [n \in 1..k |-> n]
            /\ \A n \in 1..(k - 1) : FullPage(n)
            /\ api.state = "running" => api.page = k + 1 /\ (k > 0 => FullPage(k))
            /\ api.state = "ok" => k > 0 /\ Served(k) = EmptyPage /\ api.releases = TagsUpTo(k - 1)
            /\ api.state = "error" => k > 0 /\ ~GoodPage(k) /\ api.releases = <<>>

\* The server serves an empty page after finitely many pages.
ServesEmptyPage == \E n \in 1..(MaxPages + 1) : Served(n) = EmptyPage

\* C11: list_releases requests the pages 1, 2, 3, ... in order, none skipped
\* or repeated, stops at the first empty page and returns the canonicalized
\* tags of all the pages before, in page order, none lost or duplicated; on a
\* failing page it returns an error and no list; it terminates whenever the
\* server serves an empty page after finitely many pages.
C11_ListReleasesPages ==
    /\ []C11_Paging
    /\ (api.fn = "ListReleases" /\ api.state = "running" /\ ServesEmptyPage)
            ~> (api.state # "running")

\* Two full pages then the empty one: three requests, the tags of both pages
\* returned, one of them served with a leading "v".
C11_Witness ==
    /\ api.fn = "ListReleases"
    /\ api.state = "ok"
    /\ api.asked = <<1, 2, 3>>
    /\ Len(api.releases) >= 2
    /\ Served(1).values[1].tag_name = <<"v">> \o BaseTag
    /\ api.releases[1] = BaseTag

----------------------------------------------------------------------------
\* The pages of assets as the server serves them

ServedAssets(n) == apiGetRequest(api.assetPages, api.tail, n)

SearchedNames == {api.searched[i] : i \in 1..Len(api.searched)}

\* The searched names found in the pages 1..k: the assets of these pages
\* that have a searched name and a URL.
FoundUpTo(k) ==
    {n \in SearchedNames :
        \E j \in 1..k : \E i \in 1..Len(ServedAssets(j).values) :
            /\ HasField(ServedAssets(j).values[i], "name")
            /\ HasField(ServedAssets(j).values[i], "browser_download_url")
            /\ ServedAssets(j).values[i].name = n}

\* C12: download_asset_urls terminates successfully as soon as all the
\* searched names are found, for every list of searched names (the empty list
\* and a list with a repeated name too) and every distribution of the assets
\* over the pages: it does not go on to a further page once the pages read
\* hold every searched name; the mapping returned has exactly the searched
\* names as keys; it fails with AssetNotFound only on an empty page reached
\* before every searched name has been found.
C12_AssetsFoundThenDone ==
    api.fn = "DownloadAssetURL" =>
        LET k == Len(api.asked)
        IN  /\ api.state = "running" /\ k > 0 => FoundUpTo(k) # SearchedNames
            /\ api.state = "ok" => DOMAIN api.assets = SearchedNames
            /\ api.err = "ErrAsset" =>
                   k > 0 /\ ServedAssets(k) = EmptyPage /\ FoundUpTo(k - 1) # SearchedNames

----------------------------------------------------------------------------
\* Canonical versions

\* The canonicalization of a tag: extractVersion on an object with this tag_name.
Canon(s) == extractVersion([tag_name |-> s])

\* C13: canonicalization (extractVersion on tag_name) is idempotent: for every
\* non-empty tag s, canon(canon(s)) = canon(s). Every version the client
\* returns is the canon of a tag: canonicalized again, it is itself.
C13_CanonIdempotent ==
    /\ api.fn = "LatestRelease" /\ api.state = "ok" /\ api.tag # NoStr =>
           /\ api.version = Canon(api.tag).version
           /\ Canon(api.version) = [version |-> api.version, ok |-> TRUE]
    /\ api.fn = "ListReleases" =>
           \A i \in 1..Len(api.releases) :
               Canon(api.releases[i]) = [version |-> api.releases[i], ok |-> TRUE]

\* A version string as the engine emits it: not empty, no leading "v".
Emitted(v) == v # NoStr /\ v[1] # "v"

\* C14: every version string emitted is non-empty and does not start with
\* "v": every element list_releases returns and the version latest_release
\* returns, for any tag_name served, every version Evaluate (or Detect)
\* returns, every version list_local lists.
C14_NoLeadingV ==
    /\ \A i \in 1..Len(api.releases) : Emitted(api.releases[i])
    /\ api.fn = "LatestRelease" /\ api.state = "ok" => Emitted(api.version)
    /\ \A p \in Procs :
        /\ pc[p] = "done" /\ op[p].name \in {"Evaluate", "Detect"} /\ ret[p].err = "none"
               => Emitted(ret[p].version)
        /\ \A i \in 1..Len(ret[p].listing) : Emitted(ret[p].listing[i])

----------------------------------------------------------------------------
\* Uninstall, then ListLocal

\* The process has listed the install directory right after its Uninstall of
\* a concrete version returned with no error, and no install has populated
\* this version since the removal ended.
ListedAfterUninstall(p) ==
    /\ pc[p] = "done"
    /\ op[p].name = "ListLocal"
    /\ op[p].then = "list"
    /\ ret[p].err = "none"

\* C15 (as stated, first part): after Uninstall(V) of a concrete version V
\* has returned, a ListLocal that follows does not contain V, provided no
\* install of V runs in between.
C15_ListExcludesUninstalled ==
    \A p \in Procs :
        ListedAfterUninstall(p) => NewVersion(op[p].req).text \notin Range(ret[p].listing)

\* The same when the removal has not failed (no failure was displayed).
C15_ListExcludesRemoved ==
    \A p \in Procs :
        ListedAfterUninstall(p) /\ "uninstall-failed" \notin obs[p].shown
            => NewVersion(op[p].req).text \notin Range(ret[p].listing)

\* A step of the removal made by Uninstall(V), V a concrete version, changes
\* no other directory than the one of V.
C15_RemovesOnlyRequested ==
    [][\A p \in Procs :
          /\ op[p].name = "Uninstall"
          /\ NewVersion(op[p].req).ok
          /\ pc[p] \in {"un_remove", "un_removing"}
          /\ pc'[p] # pc[p]
          => \A w \in DirNames : w # NewVersion(op[p].req).text => dirs'[w] = dirs[w]]_vars

\* ListLocal lists every directory that exists when it reads the install
\* directory.
C15_ListsWhatExists ==
    [][\A p \in Procs :
          pc[p] = "ll_list" /\ pc'[p] = "done" /\ ret'[p].err = "none"
              => \A w \in DirNames : dirs[w] # "absent" => w \in Range(ret'[p].listing)]_vars

\* C15: after Uninstall(V) of a concrete version V has returned with no
\* removal failure displayed, a ListLocal that follows does not contain V,
\* provided no install of V runs in between; Uninstall(V) removes only the
\* directory of V, and ListLocal lists every directory that exists.
C15_UninstallThenList ==
    /\ []C15_ListExcludesRemoved
    /\ C15_RemovesOnlyRequested
    /\ C15_ListsWhatExists

\* Uninstall of an installed version, then the listing, another version
\* being installed: the listing holds the other version alone.
C15_Witness ==
    \E p \in Procs :
        /\ ListedAfterUninstall(p)
        /\ "uninstalled" \in obs[p].shown
        /\ "uninstall-failed" \notin obs[p].shown
        /\ \E w \in DirNames : w # NewVersion(op[p].req).text /\ ret[p].listing = <<w>>

----------------------------------------------------------------------------
\* The prompt of Uninstall

\* The process runs Uninstall of a request that is not a concrete version.
UninstallsSelection(p) ==
    /\ op[p].name = "Uninstall"
    /\ ~NewVersion(op[p].req).ok
    /\ pc[p] \notin {"idle", "exited"}

Yes(byte) == byte \in {"y", "Y"}

\* The step of lines 545-575: the selection, the prompt, the byte read. The
\* prompt is displayed when versions are selected, and only then; the
\* removals are set off by 'y' and 'Y' after the prompt, and by nothing else.
C16_PromptStep ==
    [][\A p \in Procs :
          UninstallsSelection(p) /\ pc[p] = "un_select" /\ pc'[p] # "exited" =>
              /\ ret'[p].err = "none" =>
                     ("prompt" \in obs'[p].shown <=>
                          SelectVersionsToUninstall(op[p].req, innerListLocal(dirs, TRUE)).selected # <<>>)
              /\ ret'[p].err # "none" => "prompt" \notin obs'[p].shown
              /\ todo'[p] # <<>> <=> "prompt" \in obs'[p].shown /\ Yes(op[p].stdin)
              /\ todo'[p] # <<>> =>
                     todo'[p] = SelectVersionsToUninstall(op[p].req, innerListLocal(dirs, TRUE)).selected
              /\ "no-matching" \in obs'[p].shown => "prompt" \notin obs'[p].shown
              /\ dirs' = dirs]_vars

\* With any byte but 'y' and 'Y', and at the end of the input, nothing is
\* removed and the install directory stays as it is, from the call to the
\* return.
C16_NoRemovalStep ==
    [][\A p \in Procs :
          UninstallsSelection(p) /\ ~Yes(op[p].stdin) => dirs' = dirs /\ made' = made]_vars

\* ... and the call returns success once it has prompted, the lock released.
C16_NoRemovalResult ==
    \A p \in Procs :
        UninstallsSelection(p) /\ pc[p] = "done" /\ "prompt" \in obs[p].shown /\ ~Yes(op[p].stdin)
            => ret[p].err = "none" /\ lock # p /\ "uninstalled" \notin obs[p].shown

\* C16: Uninstall of a request that is not a concrete version removes the
\* selected versions only if the byte read from standard input is 'y' or 'Y';
\* for any other byte, and for EOF, it removes nothing, leaves the install
\* directory unchanged and returns success; when the selection is empty it
\* does not prompt and removes nothing.
C16_UninstallPrompt ==
    /\ C16_PromptStep
    /\ C16_NoRemovalStep
    /\ []C16_NoRemovalResult

\* The input ends at the prompt (EOF) with versions selected: the call has
\* returned and the versions are still there.
C16_Witness ==
    \E p \in Procs :
        /\ UninstallsSelection(p)
        /\ pc[p] = "done"
        /\ op[p].stdin = "EOF"
        /\ "prompt" \in obs[p].shown
        /\ \E v \in DirNames : dirs[v] = "full"

----------------------------------------------------------------------------
\* The install lock

\* The process is in its critical section: lockfile.Write has returned and
\* the deferred deleteLock has not run yet (lines 687-714, 533-578, 586-596).
InCritical(p) ==
    pc[p] \in {"isv_arm", "isv_check2", "isv_retrieve", "un_arm", "un_select", "un_remove",
               "un_removing", "unlock"}

\* C17: at most one process holds the install lock at any time: the critical
\* sections of installSpecificVersion, Uninstall and UninstallMultiple of
\* different processes on the same install directory never overlap.
C17_OneHolder ==
    \A p \in Procs, q \in Procs : p # q => ~(InCritical(p) /\ InCritical(q))

\* The process is between its acquisition of the lock and its release: it
\* has acquired the lock in the call under way and has not run deleteLock.
Holds(p) == obs[p].locks = 1 /\ InCritical(p)

\* Each call of retriever.InstallRelease and each step that changes a version
\* directory is made by a process between its acquisition and its release.
C18_WriteStep ==
    [][\A p \in Procs :
          (obs'[p].calls > obs[p].calls \/ (pc'[p] # pc[p] /\ dirs' # dirs))
              => Holds(p) /\ InCritical(p)']_vars

\* Uninstall parses the request and lists the directory after the acquisition.
C18_UninstallStep ==
    [][\A p \in Procs :
          /\ op[p].name = "Uninstall"
          /\ pc'[p] \notin {"exited", "idle"}
          /\ (todo'[p] # todo[p] \/ obs'[p].locals > obs[p].locals)
          => Holds(p)]_vars

\* The existence checks made outside the installer's critical section and the
\* local listings are made by a process that has acquired nothing, and their
\* steps leave the lock file alone; ListLocal never acquires the lock.
C18_ReadStep ==
    [][\A p \in Procs :
          pc[p] \in {"isv_check1", "ev_check", "ev_local", "ll_list"} /\ pc'[p] # pc[p]
              => obs[p].locks = 0 /\ obs'[p].locks = 0 /\ lock' = lock]_vars

C18_ReadersTakeNoLock ==
    \A p \in Procs : op[p].name = "ListLocal" \/ (op[p].noInstall /\ op[p].name \in {"Evaluate", "Detect"})
        => obs[p].locks = 0 /\ ~InCritical(p)

\* C18: every write to the install directory is made while the writing
\* process holds the install lock: each call of retriever.InstallRelease and
\* each removal of a version directory (Uninstall, UninstallMultiple) happens
\* between the process's acquisition of the lock and its release; Uninstall
\* acquires the lock before it parses the request or lists the directory; the
\* read-only operations (existence check, local listing) never acquire it.
C18_WritersHoldLock ==
    /\ C18_WriteStep
    /\ C18_UninstallStep
    /\ C18_ReadStep
    /\ []C18_ReadersTakeNoLock

\* An installer about to release the lock, the retriever having populated
\* the version.
C18_Witness ==
    \E p \in Procs :
        /\ Holds(p)
        /\ pc[p] = "unlock"
        /\ obs[p].calls = 1
        /\ dirs[ver[p]] = "full"

\* C19: a process that acquired the install lock releases it on every exit
\* path: normal return, error return, interrupt received while the lock is
\* held (the lock is released, then the process exits). Hence the lock is
\* never left held by a process that has returned or exited.
C19_LockReleasedAtExit ==
    \A p \in Procs : pc[p] \in {"idle", "done", "exited"} => lock # p

\* C20: with proxy_call true, the displayer is flushed with Flush(proxy_call)
\* on every return path of Detect and Evaluate, before returning success and
\* before returning any error, the paths through installSpecificVersion and
\* searchInstallRemote included.
C20_FlushedOnReturn ==
    \A p \in Procs :
        (pc[p] = "done" /\ op[p].name \in {"Detect", "Evaluate"} /\ op[p].proxyCall)
            => obs[p].flushed

----------------------------------------------------------------------------
\* UninstallMultiple

Batch(p) == op[p].name = "UninstallMultiple"

\* s is what remains of t once its first versions have been taken.
IsSuffix(s, t) == Len(s) <= Len(t) /\ s = SubSeq(t, Len(t) - Len(s) + 1, Len(t))

\* The lock is acquired once, before the first version, and kept to the last;
\* the versions still to process are what remains of the list given.
C21_OneLock ==
    \A p \in Procs :
        Batch(p) =>
            /\ obs[p].locks <= 1
            /\ IsSuffix(todo[p], op[p].batch)
            /\ pc[p] \in {"un_remove", "un_removing"} => obs[p].locks = 1 /\ lock = p

\* One round of the loop takes the first of the versions still to process and
\* no other: an empty version is reported and nothing is removed; no
\* directory but that of the version taken changes; a removal failure is
\* displayed, and the loop goes on with the following versions.
C21_Round ==
    [][\A p \in Procs :
          (Batch(p) /\ pc[p] \in {"un_remove", "un_removing"} /\ pc'[p] # "exited"
              /\ pc'[p] # pc[p])
          => LET v == Head(todo[p])
             IN  /\ \A w \in DirNames : w # v => dirs'[w] = dirs[w]
                 /\ v = NoStr => dirs' = dirs /\ "empty-version" \in obs'[p].shown
                 /\ ret'[p].err = "none"
                 /\ pc'[p] = "un_removing" => todo'[p] = todo[p] /\ v # NoStr
                 /\ pc'[p] # "un_removing" =>
                       /\ todo'[p] = Tail(todo[p])
                       /\ pc'[p] = (IF Tail(todo[p]) = <<>> THEN "unlock" ELSE "un_remove")
                       /\ v # NoStr =>
                             \/ "uninstall-failed" \in obs'[p].shown
                             \/ dirs'[v] = "absent" /\ "uninstalled" \in obs'[p].shown]_vars

\* When the operation returns, it returns success unless InstallPath failed
\* before the lock; every version of the list has been processed: the empty
\* ones reported, the others removed or their removal failure displayed.
C21_Returned ==
    \A p \in Procs :
        (Batch(p) /\ pc[p] = "done") =>
            IF obs[p].locks = 0
            THEN ret[p].err = "fs" /\ obs[p].shown = {}
            ELSE /\ ret[p].err = "none"
                 /\ todo[p] = <<>>
                 /\ \A i \in 1..Len(op[p].batch) :
                       LET v == op[p].batch[i]
                       IN  IF v = NoStr
                           THEN "empty-version" \in obs[p].shown
                           ELSE dirs[v] = "absent" \/ "uninstall-failed" \in obs[p].shown

\* C21: UninstallMultiple(versions) acquires the install lock once for the
\* whole batch and processes every listed version in order: a removal failure
\* for one version is displayed and does not stop the removal of the
\* following versions, an empty version is reported and skipped without
\* removing anything, and the operation returns success in all these cases.
C21_UninstallMultiple == []C21_OneLock /\ C21_Round /\ []C21_Returned

\* A batch of two versions has returned success: the removal of the first
\* failed on the way and was displayed, and the second is gone.
C21_Witness ==
    \E p \in Procs :
        /\ Batch(p) /\ pc[p] = "done" /\ ret[p].err = "none"
        /\ Len(op[p].batch) = 2
        /\ op[p].batch[1] # op[p].batch[2]
        /\ {"uninstall-failed", "uninstalled"} \subseteq obs[p].shown
        /\ op[p].batch[1] # NoStr /\ dirs[op[p].batch[1]] = "partial"
        /\ op[p].batch[2] # NoStr /\ dirs[op[p].batch[2]] = "absent"

----------------------------------------------------------------------------
\* No acquisition under the lock

\* The process is at lockfile.Write (lines 687, 533, 586) and has not
\* returned from it.
Acquiring(p) == pc[p] \in {"isv_lock", "un_lock"}

\* A process that is about to acquire the lock, or waits for it, has not
\* acquired it in the call under way, and a call acquires it at most once.
C22_AcquiresOutside ==
    \A p \in Procs :
        /\ obs[p].locks <= 1
        /\ Acquiring(p) => obs[p].locks = 0 /\ ~armed[p] /\ ~InCritical(p)

\* The step that acquires the lock is made outside the critical section, and
\* no step made in the critical section (the second check, the retriever call,
\* the selection, uninstallSpecificVersion) acquires it or leads to lockfile.Write.
C22_AcquireStep ==
    [][\A p \in Procs :
          /\ obs'[p].locks > obs[p].locks =>
                Acquiring(p) /\ obs[p].locks = 0 /\ lock = NoProc /\ lock' = p /\ InCritical(p)'
          /\ InCritical(p) /\ pc'[p] \notin {pc[p], "exited"} =>
                obs'[p].locks = obs[p].locks /\ ~Acquiring(p)']_vars

\* C22: no operation of the facade tries to acquire the install lock while
\* the same process already holds it: in every call chain of Detect,
\* Evaluate, Install, Use, Uninstall and UninstallMultiple the lock is acquired at
\* most once at a time (uninstallSpecificVersion and the retriever call run
\* under the lock without re-acquiring it), so a process never blocks on its
\* own lock.
C22_NoReacquire == []C22_AcquiresOutside /\ C22_AcquireStep

\* UninstallMultiple is in its second call of uninstallSpecificVersion, a
\* removal under way, under the lock it acquired once.
C22_Witness ==
    \E p \in Procs :
        /\ Batch(p) /\ pc[p] = "un_removing"
        /\ Len(op[p].batch) = 2 /\ Len(todo[p]) = 1
        /\ lock = p /\ obs[p].locks = 1 /\ armed[p]

====
